---- MODULE Spec2Model ----
(***************************************************************************)
(* A model of the relic combination optimizer (src/src/relic_optimizer.py):*)
(* the RelicOptimizer object, its three optimize_* entry points, the       *)
(* Phase-3 pairing loop of optimize_combined with its heap, and the        *)
(* aggregation done by format_results and _build_output.                   *)
(*                                                                         *)
(* Conventions.  Python lists and tuples are sequences (1-based here,      *)
(* 0-based in the source), dicts are functions, sets are sets.  A relic is *)
(* a record [id, itemColor, itemType, effects]; effects is a sequence of   *)
(* groups, a group a sequence of effect records [key].  None is the        *)
(* string "None".  The stacking values True / False / 'conditional' of     *)
(* stacking_data are the strings "True", "False", "conditional".           *)
(***************************************************************************)
EXTENDS Integers, Sequences, FiniteSets, TLC

None == "None"

-----------------------------------------------------------------------------
(* Module-level constants of relic_optimizer.py *)

PRIORITY_WEIGHTS == [required |-> 100, preferred |-> 10, nice_to_have |-> 1]

CONCENTRATION_BONUS == 5

SUB_RANK_TIER == [required |-> 10000, preferred |-> 100, nice_to_have |-> 1]

max_pairs == 500

-----------------------------------------------------------------------------
(* Generic helpers: Python built-ins used by the source *)

Range(s) == {s[i] : i \in DOMAIN s}

(* list(...): the elements of a comprehension, computed once *)
List(s) == SubSeq(s, 1, Len(s))

RECURSIVE SumSeq(_)
SumSeq(s) == IF s = <<>> THEN 0 ELSE Head(s) + SumSeq(Tail(s))

RECURSIVE Concat(_)
Concat(ss) == IF ss = <<>> THEN <<>> ELSE Head(ss) \o Concat(Tail(ss))

Min2(a, b) == IF a <= b THEN a ELSE b

Prefix(s, n) == SubSeq(s, 1, Min2(n, Len(s)))

BoolInt(b) == IF b THEN 1 ELSE 0

(* Tuple comparison of Python: lexicographic on equal-length int tuples *)
LexLT(a, b) ==
    \E i \in 1..Len(a) : a[i] < b[i] /\ \A j \in 1..(i - 1) : a[j] = b[j]

LexGE(a, b) == ~LexLT(a, b)

(* list.sort(key=..., reverse=True): descending by key, stable (elements   *)
(* with equal keys keep their relative order).  keys[i] is the key of s[i].*)
SortDescBy(s, keys) ==
    LET n == Len(s)
        ks == List(keys)
        pos == List([i \in 1..n |->
                  1 + Cardinality({j \in 1..n :
                        \/ LexLT(ks[i], ks[j])
                        \/ (ks[j] = ks[i] /\ j < i)})])
    IN  List([p \in 1..n |-> s[CHOOSE i \in 1..n : pos[i] = p]])

(* sorted(...) of a set of ints, ascending *)
SortedInts(S) ==
    List([p \in 1..Cardinality(S) |->
        CHOOSE x \in S : Cardinality({y \in S : y < x}) = p - 1])

(* The order Python gives to effect keys (str comparison) on the keys the  *)
(* model uses.                                                             *)
KeyOrder == <<"A", "B", "C", "X">>

SortedKeys(S) == SelectSeq(KeyOrder, LAMBDA k : k \in S)

(* Order of color names under sorted(): 'Any' < 'Blue' < 'Red' < 'Yellow'  *)
ColorOrder == <<"Any", "Blue", "Red", "Yellow">>

ColorRank(c) == CHOOSE i \in 1..Len(ColorOrder) : ColorOrder[i] = c

SortedColors(p) ==
    SortDescBy(p, [i \in 1..Len(p) |-> <<0 - ColorRank(p[i])>>])

-----------------------------------------------------------------------------
(* State *)

VARIABLES
    all_relics,             \* self.all_relics: the inventory (list of relics)
    effect_specs,           \* self.effect_specs: the wish list
    stacking_data,          \* self.stacking_data: key -> stacking value
    effect_lookup,          \* self.effect_lookup: include key -> priority, weight
    exclude_lookup,         \* self.exclude_lookup: exclude key -> priority, weight
    _spec_sub_rank_values,  \* self._spec_sub_rank_values (by include index)
    _excl_sub_rank_values,  \* self._excl_sub_rank_values (by exclude index)
    _phase_cache,           \* self._phase_cache: pattern key -> list of triples
    pc,                     \* where the caller is: idle, outer, inner, build,
                            \* returned, raised, done
    args,                   \* main's args (and optimize_combined's type arguments)
    vessel_configs,         \* main's vessel_configs
    vi,                     \* main's loop index (vessel or color), 1-based
    frame,                  \* locals of optimize_combined's Phase 3
    results,                \* the list the last optimize_* call returned
    all_output,             \* main's all_output: one formatted output per call
    output_data,            \* main's output_data: what _build_output returned
    call,                   \* a direct call of one function: its name and arguments
    ret,                    \* what that call returned
    _spec_keys_cache,       \* self._spec_keys_cache: relic id -> include hits
    _exclude_keys_cache,    \* self._exclude_keys_cache: relic id -> exclude hits
    _score_cache            \* self._score_cache: relic id -> score

vars == <<all_relics, effect_specs, stacking_data, effect_lookup,
          exclude_lookup, _spec_sub_rank_values, _excl_sub_rank_values,
          _phase_cache, pc, args, vessel_configs, vi, frame, results,
          all_output, output_data, call, ret,
          _spec_keys_cache, _exclude_keys_cache, _score_cache>>

-----------------------------------------------------------------------------
(* RelicOptimizer.__init__: the lookup tables and the integer-indexed arrays *)

(* The loop "for spec in specs: if key: lookup[key] = {...}": a later entry *)
(* with the same key overwrites the earlier binding.                        *)
BuildLookup(specs) ==
    LET keyed == SelectSeq(specs, LAMBDA s : s.key # None)
        last(k) == keyed[CHOOSE i \in 1..Len(keyed) :
                            /\ keyed[i].key = k
                            /\ \A j \in (i + 1)..Len(keyed) : keyed[j].key # k]
    IN  [k \in {keyed[i].key : i \in 1..Len(keyed)} |->
            [priority |-> last(k).priority,
             weight   |-> PRIORITY_WEIGHTS[last(k).priority]]]

include_specs(specs) == SelectSeq(specs, LAMBDA s : ~s.exclude)

exclude_specs(specs) == SelectSeq(specs, LAMBDA s : s.exclude)

(* priority_groups / sub-rank values: specs with a key of the table are    *)
(* grouped by their own priority (groups in order of first appearance);    *)
(* each entry assigns (group_size - rank) * tier to its key's index, the   *)
(* last assignment standing.                                               *)
SubRankValues(specs, key_list) ==
    LET keyed   == SelectSeq(specs, LAMBDA s : s.key \in Range(key_list))
        n       == Len(keyed)
        firsts  == {i \in 1..n :
                      \A j \in 1..(i - 1) : keyed[j].priority # keyed[i].priority}
        order   == SortedInts(firsts)
        group(p) == SelectSeq(keyed, LAMBDA s : s.priority = p)
        assigns == Concat([g \in 1..Len(order) |->
                      LET p == keyed[order[g]].priority
                          entries == group(p)
                      IN  [e \in 1..Len(entries) |->
                             [key |-> entries[e].key,
                              val |-> (Len(entries) - entries[e].rank)
                                        * SUB_RANK_TIER[p]]]])
        hits(k) == {a \in 1..Len(assigns) : assigns[a].key = k}
    IN  [i \in 1..Len(key_list) |->
            IF hits(key_list[i]) = {} THEN 0
            ELSE assigns[CHOOSE a \in hits(key_list[i]) :
                            \A b \in hits(key_list[i]) : b <= a].val]

_spec_key_list == SortedKeys(DOMAIN effect_lookup)

_n_spec == Len(_spec_key_list)

_spec_key_to_idx(k) == CHOOSE i \in 1..Len(_spec_key_list) : _spec_key_list[i] = k

_spec_weights == List([i \in 1..Len(_spec_key_list) |->
                    effect_lookup[_spec_key_list[i]].weight])

StackingOf(k) == IF k \in DOMAIN stacking_data THEN stacking_data[k] ELSE "False"

(* Stacking codes: 0 = non-stackable, 1 = stackable, 2 = conditional *)
_spec_stacking_int ==
    List([i \in 1..Len(_spec_key_list) |->
        LET s == StackingOf(_spec_key_list[i])
        IN  IF s = "True" THEN 1 ELSE IF s = "conditional" THEN 2 ELSE 0])

(* Variant: the conditional penalty taken at the non-stackable rate *)
_spec_penalty30_as_50 == List([i \in 1..Len(_spec_key_list) |-> _spec_weights[i] \div 2])

(* int(w * 0.3) and int(w * 0.5) on the weights 1, 10, 100 *)
_spec_penalty30 == List([i \in 1..Len(_spec_key_list) |-> (_spec_weights[i] * 3) \div 10])

_spec_penalty50 == List([i \in 1..Len(_spec_key_list) |-> _spec_weights[i] \div 2])

_is_required == List([i \in 1..Len(_spec_key_list) |->
                    effect_lookup[_spec_key_list[i]].priority = "required"])

_required_idx_set == {i \in 1..Len(_spec_key_list) : _is_required[i]}

_excl_key_list == SortedKeys(DOMAIN exclude_lookup)

_excl_key_to_idx(k) == CHOOSE i \in 1..Len(_excl_key_list) : _excl_key_list[i] = k

_excl_weights == List([i \in 1..Len(_excl_key_list) |->
                    exclude_lookup[_excl_key_list[i]].weight])

(* Variant: the REQUIRED flag of an exclude key read off the wrong priority *)
_excl_is_required_on_preferred ==
    List([i \in 1..Len(_excl_key_list) |->
            exclude_lookup[_excl_key_list[i]].priority = "preferred"])

_excl_is_required == List([i \in 1..Len(_excl_key_list) |->
                        exclude_lookup[_excl_key_list[i]].priority = "required"])

_relic_by_id(rid) == CHOOSE r \in Range(all_relics) : r.id = rid

-----------------------------------------------------------------------------
(* Per-relic operations *)

(* The types argument: a set of item types; None is the set {None} *)
NoneTypes == {None}

filter_relics(types, color) ==
    LET byType == IF types = NoneTypes \/ types = {} THEN all_relics
                  ELSE SelectSeq(all_relics, LAMBDA r : r.itemType \in types)
    IN  IF color = None THEN byType
        ELSE SelectSeq(byType, LAMBDA r : r.itemColor = color)

(* every effect key of the relic, group by group, sub-effects included *)
EffectKeys(relic) ==
    Concat([g \in 1..Len(relic.effects) |->
              [e \in 1..Len(relic.effects[g]) |-> relic.effects[g][e].key]])

_get_spec_keys(relic) ==
    SelectSeq(EffectKeys(relic), LAMBDA k : k \in DOMAIN effect_lookup)

_get_exclude_keys(relic) ==
    SelectSeq(EffectKeys(relic), LAMBDA k : k \in DOMAIN exclude_lookup)

(* Variant: the bonus counted per include hit instead of per pair of hits *)
ConcBonus_per_hit(n) == IF n >= 2 THEN CONCENTRATION_BONUS * n ELSE 0

ConcBonus(n) == IF n >= 2 THEN (CONCENTRATION_BONUS * n * (n - 1)) \div 2 ELSE 0

score_relic(relic) ==
    LET spec_keys == _get_spec_keys(relic)
        excl_keys == _get_exclude_keys(relic)
    IN  SumSeq([i \in 1..Len(spec_keys) |-> effect_lookup[spec_keys[i]].weight])
        + ConcBonus(Len(spec_keys))
        - SumSeq([i \in 1..Len(excl_keys) |-> exclude_lookup[excl_keys[i]].weight])

-----------------------------------------------------------------------------
(* Scoring of count vectors and of combinations *)

(* Variant: every present key counted once, whatever its stacking kind *)
_fast_stacking_score_once(counts) ==
    SumSeq([i \in 1..Len(_spec_key_list) |->
              IF counts[i] = 0 THEN 0 ELSE _spec_weights[i]])

_fast_stacking_score(counts) ==
    SumSeq([i \in 1..Len(_spec_key_list) |->
        LET c == counts[i]
        IN  IF c = 0 THEN 0
            ELSE IF _spec_stacking_int[i] = 1 THEN _spec_weights[i] * c
            ELSE IF _spec_stacking_int[i] = 2
                 THEN _spec_weights[i]
                      - (IF c > 1 THEN _spec_penalty30[i] * (c - 1) ELSE 0)
            ELSE _spec_weights[i]
                 - (IF c > 1 THEN _spec_penalty50[i] * (c - 1) ELSE 0)])

_fast_sub_score(counts) ==
    SumSeq([i \in 1..Len(_spec_key_list) |->
              IF counts[i] > 0 THEN _spec_sub_rank_values[i] ELSE 0])

(* effect_counts is a dict key -> count.  int(weight * 0.3 * (count - 1))   *)
(* and int(weight * 0.5 * (count - 1)) truncate the double product, which   *)
(* on the weights 1, 10, 100 is the integer quotient below.                 *)
_stacking_aware_score(effect_counts) ==
    LET ks == SortedKeys(DOMAIN effect_counts)
    IN  SumSeq([n \in 1..Len(ks) |->
          LET key    == ks[n]
              count  == effect_counts[key]
              weight == effect_lookup[key].weight
          IN  IF key \notin DOMAIN effect_lookup THEN 0
              ELSE IF StackingOf(key) = "True" THEN weight * count
              ELSE IF StackingOf(key) = "conditional"
                   THEN weight - (IF count > 1
                                  THEN (weight * 3 * (count - 1)) \div 10 ELSE 0)
              ELSE weight - (IF count > 1
                             THEN (weight * (count - 1)) \div 2 ELSE 0)])

(* Occurrences of x in the sequence s *)
Occurrences(s, x) == Cardinality({i \in 1..Len(s) : s[i] = x})

(* combo: a sequence of relics.  A relic whose id was seen earlier in the   *)
(* combo is skipped.                                                        *)
score_combination(combo) ==
    LET uniq == SelectSeq([i \in 1..Len(combo) |-> [at |-> i, relic |-> combo[i]]],
                          LAMBDA x : \A j \in 1..(x.at - 1) : combo[j].id # x.relic.id)
        spec_keys(i) == _get_spec_keys(uniq[i].relic)
        excl_keys(i) == _get_exclude_keys(uniq[i].relic)
        all_spec == Concat([i \in 1..Len(uniq) |-> spec_keys(i)])
        all_excl == Concat([i \in 1..Len(uniq) |-> excl_keys(i)])
        effect_counts == [k \in Range(all_spec) |-> Occurrences(all_spec, k)]
        concentration == SumSeq([i \in 1..Len(uniq) |-> ConcBonus(Len(spec_keys(i)))])
        exclude_penalty ==
            SumSeq([i \in 1..Len(all_excl) |-> exclude_lookup[all_excl[i]].weight])
        has_exclude_required ==
            \E i \in 1..Len(all_excl) : exclude_lookup[all_excl[i]].priority = "required"
        matched_keys == DOMAIN effect_counts
        mk == SortedKeys(matched_keys)
        required_keys == {k \in DOMAIN effect_lookup :
                            effect_lookup[k].priority = "required"}
        missing_required == SortedKeys(required_keys \ matched_keys)
    IN  [required_met     |-> missing_required = <<>> /\ ~has_exclude_required,
         score            |-> _stacking_aware_score(effect_counts)
                                + concentration - exclude_penalty,
         sub_score        |-> SumSeq([i \in 1..Len(mk) |->
                                _spec_sub_rank_values[_spec_key_to_idx(mk[i])]]),
         matched_keys     |-> matched_keys,
         missing_required |-> missing_required,
         excluded_present |-> Range(all_excl)]

-----------------------------------------------------------------------------
(* Compact relics and the three-slot enumerators *)

_compact_relic(relic) ==
    LET spec_keys == _get_spec_keys(relic)
        excl_keys == _get_exclude_keys(relic)
        eidx(i)   == _excl_key_to_idx(excl_keys[i])
    IN  [rid |-> relic.id,
         si  |-> List([i \in 1..Len(spec_keys) |-> _spec_key_to_idx(spec_keys[i])]),
         ep  |-> SumSeq([i \in 1..Len(excl_keys) |-> _excl_weights[eidx(i)]]),
         her |-> \E i \in 1..Len(excl_keys) : _excl_is_required[eidx(i)],
         cb  |-> ConcBonus(Len(spec_keys)),
         esr |-> SumSeq([i \in 1..Len(excl_keys) |-> _excl_sub_rank_values[eidx(i)]])]

(* The body shared by the four enumerators: the stored tuple of one triple *)
(* (score, counts_tuple, conc, excl_pen, has_excl_req, relic_ids,          *)
(* excl_sub_sum) of the compact relics cs, in the order given.             *)
MakeCombo(cs) ==
    LET all_si == Concat([i \in 1..Len(cs) |-> cs[i].si])
        counts == List([i \in 1..Len(_spec_key_list) |-> Occurrences(all_si, i)])
        conc   == SumSeq([i \in 1..Len(cs) |-> cs[i].cb])
        ep     == SumSeq([i \in 1..Len(cs) |-> cs[i].ep])
    IN  [score |-> _fast_stacking_score(counts) + conc - ep,
         counts |-> counts,
         conc |-> conc,
         excl_pen |-> ep,
         has_excl_req |-> \E i \in 1..Len(cs) : cs[i].her,
         rids |-> List([i \in 1..Len(cs) |-> cs[i].rid]),
         excl_sub_sum |-> SumSeq([i \in 1..Len(cs) |-> cs[i].esr])]

(* The index triples (i, j, k), i < n1, j < n2, k < n3, in the order three *)
(* nested for-loops visit them.                                            *)
Triples(n1, n2, n3) ==
    List([p \in 1..(n1 * n2 * n3) |->
            <<((p - 1) \div (n2 * n3)) + 1,
              (((p - 1) \div n3) % n2) + 1,
              ((p - 1) % n3) + 1>>])

(* Variant: the three indices only kept in order, a relic taken twice or   *)
(* three times included                                                    *)
_enum_all_same_with_repeats(cands) ==
    LET n == Len(cands)
        idx == SelectSeq(Triples(n, n, n), LAMBDA t : t[1] <= t[2] /\ t[2] <= t[3])
    IN  List([p \in 1..Len(idx) |->
            MakeCombo(<<cands[idx[p][1]], cands[idx[p][2]], cands[idx[p][3]]>>)])

_enum_all_same(cands) ==
    LET n == Len(cands)
        idx == SelectSeq(Triples(n, n, n), LAMBDA t : t[1] < t[2] /\ t[2] < t[3])
    IN  List([p \in 1..Len(idx) |->
            MakeCombo(<<cands[idx[p][1]], cands[idx[p][2]], cands[idx[p][3]]>>)])

_enum_all_diff(compact_cands) ==
    LET c0 == compact_cands[1]
        c1 == compact_cands[2]
        c2 == compact_cands[3]
        idx == Triples(Len(c0), Len(c1), Len(c2))
    IN  List([p \in 1..Len(idx) |->
            MakeCombo(<<c0[idx[p][1]], c1[idx[p][2]], c2[idx[p][3]]>>)])

(* Variant: the pair always taken from the first slot's list and the third *)
(* relic from the last slot's, whatever the pattern                        *)
_enum_two_same_by_position(compact_cands, slot_colors) ==
    LET same_cands == compact_cands[1]
        diff_cands == compact_cands[3]
        n_same == Len(same_cands)
        idx == SelectSeq(Triples(n_same, n_same, Len(diff_cands)), LAMBDA t :
                            /\ t[1] < t[2]
                            /\ diff_cands[t[3]].rid # same_cands[t[1]].rid
                            /\ diff_cands[t[3]].rid # same_cands[t[2]].rid)
    IN  List([p \in 1..Len(idx) |->
            MakeCombo(<<same_cands[idx[p][1]], same_cands[idx[p][2]],
                        diff_cands[idx[p][3]]>>)])

_enum_two_same(compact_cands, slot_colors) ==
    LET same_color == CHOOSE c \in Range(slot_colors) : Occurrences(slot_colors, c) = 2
        same_idx == CHOOSE i \in 1..3 :
                        /\ slot_colors[i] = same_color
                        /\ \A j \in 1..(i - 1) : slot_colors[j] # same_color
        diff_idx == CHOOSE i \in 1..3 : slot_colors[i] # same_color
        same_cands == compact_cands[same_idx]
        diff_cands == compact_cands[diff_idx]
        n_same == Len(same_cands)
        idx == SelectSeq(Triples(n_same, n_same, Len(diff_cands)), LAMBDA t :
                            /\ t[1] < t[2]
                            /\ diff_cands[t[3]].rid # same_cands[t[1]].rid
                            /\ diff_cands[t[3]].rid # same_cands[t[2]].rid)
    IN  List([p \in 1..Len(idx) |->
            MakeCombo(<<same_cands[idx[p][1]], same_cands[idx[p][2]],
                        diff_cands[idx[p][3]]>>)])

(* Variant: every leaf kept, whether its sorted ids were seen or not *)
_enum_general_all_leaves(compact_cands) ==
    LET c0 == compact_cands[1]
        c1 == compact_cands[2]
        c2 == compact_cands[3]
        ids(t) == {c0[t[1]].rid, c1[t[2]].rid, c2[t[3]].rid}
        idx == SelectSeq(Triples(Len(c0), Len(c1), Len(c2)),
                         LAMBDA t : Cardinality(ids(t)) = 3)
    IN  List([n \in 1..Len(idx) |->
            MakeCombo(<<c0[idx[n][1]], c1[idx[n][2]], c2[idx[n][3]]>>)])

(* recurse(): depth-first over the slots, skipping ids already chosen; a   *)
(* leaf whose sorted ids were seen before is dropped.                      *)
_enum_general(compact_cands) ==
    LET c0 == compact_cands[1]
        c1 == compact_cands[2]
        c2 == compact_cands[3]
        ids(t) == {c0[t[1]].rid, c1[t[2]].rid, c2[t[3]].rid}
        idx == SelectSeq(Triples(Len(c0), Len(c1), Len(c2)),
                         LAMBDA t : Cardinality(ids(t)) = 3)
        kept == SelectSeq([p \in 1..Len(idx) |-> p],
                          LAMBDA p : \A q \in 1..(p - 1) : ids(idx[q]) # ids(idx[p]))
    IN  List([n \in 1..Len(kept) |->
            MakeCombo(<<c0[idx[kept[n]][1]], c1[idx[kept[n]][2]],
                        c2[idx[kept[n]][3]]>>)])

_enumerate_combos(compact_cands, slot_colors) ==
    LET n_slots == Len(slot_colors)
        has_any == "Any" \in Range(slot_colors)
        unique_colors == Range(slot_colors) \ {"Any"}
    IN  IF n_slots = 3 /\ ~has_any /\ Cardinality(unique_colors) = 1
            THEN _enum_all_same(compact_cands[1])
        ELSE IF n_slots = 3 /\ ~has_any /\ Cardinality(unique_colors) = 3
            THEN _enum_all_diff(compact_cands)
        ELSE IF n_slots = 3 /\ ~has_any /\ Cardinality(unique_colors) = 2
            THEN _enum_two_same(compact_cands, slot_colors)
        ELSE _enum_general(compact_cands)

-----------------------------------------------------------------------------
(* Candidate lists *)

(* Variant: every slot treated as an Any slot *)
ByColor_all_any(relics, slot_color) == relics

ByColor(relics, slot_color) ==
    IF slot_color = "Any" THEN relics
    ELSE SelectSeq(relics, LAMBDA r : r.itemColor = slot_color)

SortByScore(relics) ==
    SortDescBy(relics, [i \in 1..Len(relics) |-> <<score_relic(relics[i])>>])

(* optimize_for_vessel, "For each slot, get scored candidate relics" *)
VesselSlotCandidates(slot_colors, base_filtered, candidates_per_slot) ==
    List([s \in 1..Len(slot_colors) |->
        Prefix(SortByScore(ByColor(base_filtered, slot_colors[s])),
               candidates_per_slot)])

(* Variant: the lists filled by score alone, without must_include *)
_build_slot_candidates_by_score(slot_colors, filtered, candidates_per_slot) ==
    VesselSlotCandidates(slot_colors, filtered, candidates_per_slot)

_build_slot_candidates(slot_colors, filtered, candidates_per_slot) ==
    LET wanted_ids == {filtered[i].id : i \in {j \in 1..Len(filtered) :
                                            _get_spec_keys(filtered[j]) # <<>>}}
    IN  List([s \in 1..Len(slot_colors) |->
          LET candidates == ByColor(filtered, slot_colors[s])
              wanted == SelectSeq(candidates, LAMBDA r : r.id \in wanted_ids)
              must_include ==
                  IF Len(wanted) > candidates_per_slot
                  THEN Prefix(SortByScore(wanted), candidates_per_slot)
                  ELSE wanted
              must_ids == {must_include[i].id : i \in 1..Len(must_include)}
              others == SortByScore(
                          SelectSeq(candidates, LAMBDA r : r.id \notin must_ids))
              remaining == candidates_per_slot - Len(must_include)
              top_others == IF remaining > 0 THEN Prefix(others, remaining)
                            ELSE <<>>
          IN  SortByScore(must_include \o top_others)])

-----------------------------------------------------------------------------
(* The per-relic caches.  _get_spec_keys, _get_exclude_keys and score_relic *)
(* return the entry stored under the relic's id when there is one, and      *)
(* compute and store it otherwise.  The operators above with these names    *)
(* are the computations; the ones below go through the caches, c being the  *)
(* record of the three dicts.                                               *)

Caches == <<_spec_keys_cache, _exclude_keys_cache, _score_cache>>

CachesNow == [spec |-> _spec_keys_cache, excl |-> _exclude_keys_cache,
              score |-> _score_cache]

(* Variant: a hit answered with the entry of the smallest id in the cache *)
CacheGet_lowest_id(cache, rid) ==
    cache[CHOOSE k \in DOMAIN cache : \A j \in DOMAIN cache : k <= j]

(* return self._..._cache[rid] *)
CacheGet(cache, rid) == cache[rid]

(* self._..._cache[rid] = value *)
CachePut(cache, rid, value) ==
    [k \in DOMAIN cache \cup {rid} |-> IF k = rid THEN value ELSE cache[k]]

(* value: what the call returns; caches: the three dicts after the call *)
MemoSpecKeys(relic, c) ==
    IF relic.id \in DOMAIN c.spec
    THEN [value |-> CacheGet(c.spec, relic.id), caches |-> c]
    ELSE [value |-> _get_spec_keys(relic),
          caches |-> [c EXCEPT !.spec = CachePut(@, relic.id, _get_spec_keys(relic))]]

MemoExcludeKeys(relic, c) ==
    IF relic.id \in DOMAIN c.excl
    THEN [value |-> CacheGet(c.excl, relic.id), caches |-> c]
    ELSE [value |-> _get_exclude_keys(relic),
          caches |-> [c EXCEPT !.excl = CachePut(@, relic.id, _get_exclude_keys(relic))]]

(* the body of score_relic after a miss: spec_keys and excl_keys are what   *)
(* the two cached readers returned, c the caches after them                 *)
ScoreStored(relic, spec_keys, excl_keys, c) ==
    LET score == SumSeq([i \in 1..Len(spec_keys) |-> effect_lookup[spec_keys[i]].weight])
                 + ConcBonus(Len(spec_keys))
                 - SumSeq([i \in 1..Len(excl_keys) |->
                             exclude_lookup[excl_keys[i]].weight])
    IN  [value |-> score, caches |-> [c EXCEPT !.score = CachePut(@, relic.id, score)]]

MemoScore(relic, c) ==
    IF relic.id \in DOMAIN c.score
    THEN [value |-> CacheGet(c.score, relic.id), caches |-> c]
    ELSE ScoreStored(relic, MemoSpecKeys(relic, c).value,
                     MemoExcludeKeys(relic, c).value,
                     MemoExcludeKeys(relic, MemoSpecKeys(relic, c).caches).caches)

(* the caches after score_relic (or _get_spec_keys) on each relic in turn *)
RECURSIVE MemoScoreAll(_, _)
MemoScoreAll(relics, c) ==
    IF relics = <<>> THEN c
    ELSE MemoScoreAll(Tail(relics), MemoScore(Head(relics), c).caches)

RECURSIVE MemoSpecKeysAll(_, _)
MemoSpecKeysAll(relics, c) ==
    IF relics = <<>> THEN c
    ELSE MemoSpecKeysAll(Tail(relics), MemoSpecKeys(Head(relics), c).caches)

(* sort(key=lambda r: self.score_relic(r), reverse=True) on relics whose   *)
(* scores the calls of the sort leave in c                                 *)
SortByMemoScore(relics, c) ==
    SortDescBy(relics, [i \in 1..Len(relics) |-> <<MemoScore(relics[i], c).value>>])

(* One slot of _build_slot_candidates, in three steps: must_include (cut   *)
(* to the cap by score when it is longer), the others scored, the combined *)
(* list sorted.                                                            *)
SlotCombined(must_include, rest, candidates_per_slot, c) ==
    LET remaining == candidates_per_slot - Len(must_include)
        top_others == IF remaining > 0 THEN Prefix(SortByMemoScore(rest, c), remaining)
                      ELSE <<>>
    IN  [cands |-> SortByMemoScore(must_include \o top_others,
                                   MemoScoreAll(must_include \o top_others, c)),
         caches |-> MemoScoreAll(must_include \o top_others, c)]

SlotOthers(candidates, must_include, candidates_per_slot, c) ==
    SlotCombined(must_include,
                 SelectSeq(candidates, LAMBDA r :
                    \A i \in 1..Len(must_include) : must_include[i].id # r.id),
                 candidates_per_slot,
                 MemoScoreAll(SelectSeq(candidates, LAMBDA r :
                    \A i \in 1..Len(must_include) : must_include[i].id # r.id), c))

SlotWithCaches(candidates, wanted, candidates_per_slot, c) ==
    IF Len(wanted) > candidates_per_slot
    THEN SlotOthers(candidates,
                    Prefix(SortByMemoScore(wanted, MemoScoreAll(wanted, c)),
                           candidates_per_slot),
                    candidates_per_slot, MemoScoreAll(wanted, c))
    ELSE SlotOthers(candidates, wanted, candidates_per_slot, c)

(* the loop over the slots: done holds the lists built so far *)
RECURSIVE SlotsWithCaches(_, _, _, _, _, _)
SlotsWithCaches(slot_colors, filtered, wanted_ids, candidates_per_slot, done, c) ==
    IF slot_colors = <<>> THEN [cands |-> done, caches |-> c]
    ELSE LET slot == SlotWithCaches(
                        ByColor(filtered, Head(slot_colors)),
                        SelectSeq(ByColor(filtered, Head(slot_colors)),
                                  LAMBDA r : r.id \in wanted_ids),
                        candidates_per_slot, c)
         IN  SlotsWithCaches(Tail(slot_colors), filtered, wanted_ids,
                             candidates_per_slot, Append(done, slot.cands), slot.caches)

(* _build_slot_candidates as it runs on an optimizer with caches c: the    *)
(* lists it returns and the caches it leaves                               *)
BuildWithCaches(slot_colors, filtered, candidates_per_slot, c) ==
    SlotsWithCaches(slot_colors, filtered,
                    {filtered[i].id : i \in {j \in 1..Len(filtered) :
                        MemoSpecKeys(filtered[j], MemoSpecKeysAll(filtered, c)).value
                            # <<>>}},
                    candidates_per_slot, <<>>, MemoSpecKeysAll(filtered, c))

(* the caches after optimize_for_vessel: score_relic on the pool of each   *)
(* slot                                                                    *)
VesselCaches(slot_colors, types, c) ==
    MemoScoreAll(Concat([s \in 1..Len(slot_colors) |->
                            ByColor(filter_relics(types, None), slot_colors[s])]), c)

(* the caches after optimize_legacy: score_relic on the filtered relics *)
LegacyCaches(color, types, c) == MemoScoreAll(filter_relics(types, color), c)

(* the caches after optimize_combined: the two candidate tables built, the *)
(* ordinary side first; compact relics and result entries read keys of     *)
(* scored relics only                                                      *)
CombinedCaches(normal_slot_colors, deep_slot_colors, normal_types, deep_types, candidates_per_slot, c) ==
    BuildWithCaches(
        deep_slot_colors, filter_relics(deep_types, None), candidates_per_slot,
        BuildWithCaches(
            normal_slot_colors, filter_relics(normal_types, None),
            candidates_per_slot, c).caches).caches

(* the three dicts become those of the record c *)
SetCaches(c) ==
    /\ _spec_keys_cache' = c.spec
    /\ _exclude_keys_cache' = c.excl
    /\ _score_cache' = c.score

-----------------------------------------------------------------------------
(* Ranked entries *)

(* The sort key (required_met, score, sub_score) of results.sort(...) *)
RankKey(e) == <<BoolInt(e.required_met), e.score, e.sub_score>>

SortResults(rs) == SortDescBy(rs, [i \in 1..Len(rs) |-> RankKey(rs[i])])

Ids(relics) == List([i \in 1..Len(relics) |-> relics[i].id])

(* An entry of optimize_for_vessel / optimize_legacy.  A relic of an entry *)
(* is held by its id (ids are unique in the inventory).                    *)
ComboEntry(combo) ==
    LET sc == score_combination(combo)
    IN  [required_met     |-> sc.required_met,
         score            |-> sc.score,
         sub_score        |-> sc.sub_score,
         matched_keys     |-> sc.matched_keys,
         missing_required |-> sc.missing_required,
         excluded_present |-> sc.excluded_present,
         relics           |-> Ids(combo)]

optimize_for_vessel(slot_colors, types, candidates_per_slot, top_n) ==
    LET base_filtered == filter_relics(types, None)
        sc == VesselSlotCandidates(slot_colors, base_filtered, candidates_per_slot)
        ids(t) == {sc[1][t[1]].id, sc[2][t[2]].id, sc[3][t[3]].id}
        idx == SelectSeq(Triples(Len(sc[1]), Len(sc[2]), Len(sc[3])),
                         LAMBDA t : Cardinality(ids(t)) = 3)
        kept == SelectSeq([p \in 1..Len(idx) |-> p],
                          LAMBDA p : \A q \in 1..(p - 1) : ids(idx[q]) # ids(idx[p]))
        entries == List([n \in 1..Len(kept) |->
                      ComboEntry(<<sc[1][idx[kept[n]][1]], sc[2][idx[kept[n]][2]],
                                   sc[3][idx[kept[n]][3]]>>)])
    IN  IF \E s \in 1..Len(sc) : Len(sc[s]) = 0 THEN <<>>
        ELSE Prefix(SortResults(entries), top_n)

(* itertools.combinations(candidate_relics, k): the increasing index tuples *)
Combinations(n, k) ==
    LET S == {t \in [1..k -> 1..n] : \A i \in 1..(k - 1) : t[i] < t[i + 1]}
    IN  List([p \in 1..Cardinality(S) |->
            CHOOSE t \in S : Cardinality({u \in S : LexLT(u, t)}) = p - 1])

optimize_legacy(color, types, slots, candidates, top_n) ==
    LET filtered == filter_relics(types, color)
        candidate_relics == Prefix(SortByScore(filtered), candidates)
        actual_slots == Min2(slots, Len(candidate_relics))
        idx == Combinations(Len(candidate_relics), actual_slots)
        entries == List([p \in 1..Len(idx) |->
                      ComboEntry(List([i \in 1..actual_slots |->
                                    candidate_relics[idx[p][i]]]))])
    IN  IF Len(filtered) = 0 \/ actual_slots = 0 THEN <<>>
        ELSE Prefix(SortResults(entries), top_n)

(* Variant: a key counts as matched only from its second occurrence *)
MatchedOf_repeated(counts) ==
    {_spec_key_list[i] : i \in {j \in 1..Len(_spec_key_list) : counts[j] > 1}}

(* matched_keys / missing / excluded_present rebuilt from a count vector   *)
(* and relic ids (optimize_combined's lazy construction and                *)
(* _combos_to_results_compact).                                            *)
MatchedOf(counts) == {_spec_key_list[i] : i \in {j \in 1..Len(_spec_key_list) : counts[j] > 0}}

MissingOf(counts) ==
    SortedKeys({_spec_key_list[i] : i \in {j \in _required_idx_set : counts[j] = 0}})

ExcludedOf(rids) ==
    UNION {Range(_get_exclude_keys(_relic_by_id(rids[i]))) : i \in 1..Len(rids)}

_combos_to_results_compact(combos, is_deep_only) ==
    List([n \in 1..Len(combos) |->
        LET c == combos[n]
            missing == MissingOf(c.counts)
        IN  [required_met     |-> missing = <<>> /\ ~c.has_excl_req,
             score            |-> c.score,
             sub_score        |-> _fast_sub_score(c.counts) - c.excl_sub_sum,
             matched_keys     |-> MatchedOf(c.counts),
             missing_required |-> missing,
             excluded_present |-> ExcludedOf(c.rids),
             relics           |-> c.rids,
             normal_relics    |-> IF is_deep_only THEN <<>> ELSE c.rids,
             deep_relics      |-> IF is_deep_only THEN c.rids ELSE <<>>]])

-----------------------------------------------------------------------------
(* heapq on a list of keys (-req_met, -score, -sub_score, counter);        *)
(* positions are 0-based as in heapq, heap[pos + 1] here.                  *)

RECURSIVE _siftdown(_, _, _, _)
_siftdown(heap, startpos, pos, newitem) ==
    IF pos > startpos /\ LexLT(newitem, heap[((pos - 1) \div 2) + 1])
    THEN _siftdown([heap EXCEPT ![pos + 1] = heap[((pos - 1) \div 2) + 1]],
                   startpos, (pos - 1) \div 2, newitem)
    ELSE [heap EXCEPT ![pos + 1] = newitem]

heappush(heap, item) == _siftdown(Append(heap, item), 0, Len(heap), item)

RECURSIVE _siftup(_, _, _)
_siftup(heap, pos, newitem) ==
    LET endpos   == Len(heap)
        leftpos  == 2 * pos + 1
        rightpos == leftpos + 1
        childpos == IF rightpos < endpos
                       /\ ~LexLT(heap[leftpos + 1], heap[rightpos + 1])
                    THEN rightpos ELSE leftpos
    IN  IF leftpos < endpos
        THEN _siftup([heap EXCEPT ![pos + 1] = heap[childpos + 1]], childpos, newitem)
        ELSE _siftdown([heap EXCEPT ![pos + 1] = newitem], 0, pos, newitem)

(* Variant: the new item takes the place of the last element of the list *)
heapreplace_last(heap, item) == [heap EXCEPT ![Len(heap)] = item]

heapreplace(heap, item) == _siftup([heap EXCEPT ![1] = item], 0, item)

-----------------------------------------------------------------------------
(* optimize_combined up to the start of Phase 3 *)

DefaultTypes(types, default) == IF types = NoneTypes THEN default ELSE types

NormalCacheKey(slot_colors) == <<"normal", SortedColors(slot_colors)>>

DeepCacheKey(slot_colors) == <<"deep", SortedColors(slot_colors)>>

SortCombos(combos) ==
    SortDescBy(combos, [i \in 1..Len(combos) |-> <<combos[i].score>>])

(* Phase 1 or Phase 2 of one side: the triples taken from the phase cache, *)
(* or enumerated (and then stored), or none when a slot has no candidate.  *)
(* stored tells whether the list is the cache's object under key.          *)
PhaseCombos(key, cands, slot_colors) ==
    IF key \in DOMAIN _phase_cache
        THEN [combos |-> _phase_cache[key], stored |-> TRUE]
    ELSE IF \A s \in 1..Len(cands) : Len(cands[s]) > 0
        THEN [combos |-> _enumerate_combos(
                            List([s \in 1..Len(cands) |->
                                List([i \in 1..Len(cands[s]) |->
                                        _compact_relic(cands[s][i])])]),
                            slot_colors),
              stored |-> TRUE]
    ELSE [combos |-> <<>>, stored |-> FALSE]

(* Variant: the feasibility flag never set *)
BoundReqInt_never_feasible(normal_top, deep_top) == 0

(* required-coverage feasibility flag of the pruning bound: -1 when        *)
(* req_met = True is achievable, 0 otherwise.                              *)
BoundReqInt(normal_top, deep_top) ==
    LET possible_all ==
            {i \in 1..Len(_spec_key_list) :
                \/ \E n \in 1..Len(normal_top) : normal_top[n].counts[i] > 0
                \/ \E d \in 1..Len(deep_top) : deep_top[d].counts[i] > 0}
        covered == _required_idx_set = {} \/ _required_idx_set \subseteq possible_all
        has_n_no_excl == \E n \in 1..Len(normal_top) : ~normal_top[n].has_excl_req
        has_d_no_excl == \E d \in 1..Len(deep_top) : ~deep_top[d].has_excl_req
    IN  IF covered /\ has_n_no_excl /\ has_d_no_excl THEN 0 - 1 ELSE 0

(* The end of Phases 1-2: both lists sorted by triple score (in place, so  *)
(* the cache's list objects are the sorted ones), the early returns, and   *)
(* the locals normal_top and deep_top with which Phase 3 starts.           *)
SortedPhases(n_cache_key, d_cache_key, n_stored, d_stored, normal_combos, deep_combos, top_n) ==
    [cache |-> [k \in DOMAIN _phase_cache
                        \cup (IF n_stored THEN {n_cache_key} ELSE {})
                        \cup (IF d_stored THEN {d_cache_key} ELSE {}) |->
                    IF k = n_cache_key /\ n_stored THEN normal_combos
                    ELSE IF k = d_cache_key /\ d_stored THEN deep_combos
                    ELSE _phase_cache[k]],
     returns |-> normal_combos = <<>> \/ deep_combos = <<>>,
     value |-> IF normal_combos = <<>> /\ deep_combos = <<>> THEN <<>>
               ELSE IF normal_combos = <<>>
                    THEN _combos_to_results_compact(Prefix(deep_combos, top_n), TRUE)
               ELSE IF deep_combos = <<>>
                    THEN _combos_to_results_compact(Prefix(normal_combos, top_n), FALSE)
               ELSE <<>>,
     normal_top |-> Prefix(normal_combos, max_pairs),
     deep_top |-> Prefix(deep_combos, max_pairs)]

(* Phase 1 and Phase 2 done: p1 and p2 are the two sides' PhaseCombos *)
EnumeratedPhases(n_cache_key, d_cache_key, p1, p2, top_n) ==
    SortedPhases(n_cache_key, d_cache_key, p1.stored, p2.stored,
                 SortCombos(p1.combos), SortCombos(p2.combos), top_n)

(* The locals of optimize_combined when it reaches Phase 3, or the list it *)
(* returns before (both sides empty, or one side empty).                   *)
CombinedPhases12(normal_slot_colors, deep_slot_colors, normal_types_arg, deep_types_arg, candidates_per_slot, top_n) ==
    EnumeratedPhases(
        NormalCacheKey(normal_slot_colors),
        DeepCacheKey(deep_slot_colors),
        PhaseCombos(NormalCacheKey(normal_slot_colors),
                    _build_slot_candidates(
                        normal_slot_colors,
                        filter_relics(DefaultTypes(normal_types_arg,
                                                   {"Relic", "UniqueRelic"}), None),
                        candidates_per_slot),
                    normal_slot_colors),
        PhaseCombos(DeepCacheKey(deep_slot_colors),
                    _build_slot_candidates(
                        deep_slot_colors,
                        filter_relics(DefaultTypes(deep_types_arg, {"DeepRelic"}), None),
                        candidates_per_slot),
                    deep_slot_colors),
        top_n)

(* Inline merged scoring of the cross pair (n, d) of Phase 3 *)
PairRecord(n, d) ==
    LET c == List([i \in 1..Len(_spec_key_list) |-> n.counts[i] + d.counts[i]])
        has_all_required == \A i \in 1..Len(_spec_key_list) :
                                c[i] = 0 => ~_is_required[i]
        stacking == SumSeq([i \in 1..Len(_spec_key_list) |->
            IF c[i] = 0 THEN 0
            ELSE IF _spec_stacking_int[i] = 1 THEN _spec_weights[i] * c[i]
            ELSE IF _spec_stacking_int[i] = 2
                 THEN _spec_weights[i]
                      - (IF c[i] > 1 THEN _spec_penalty30[i] * (c[i] - 1) ELSE 0)
            ELSE _spec_weights[i]
                 - (IF c[i] > 1 THEN _spec_penalty50[i] * (c[i] - 1) ELSE 0)])
    IN  [req_met   |-> has_all_required /\ ~(n.has_excl_req \/ d.has_excl_req),
         score     |-> stacking + n.conc + d.conc - n.excl_pen - d.excl_pen,
         sub_score |-> SumSeq([i \in 1..Len(_spec_key_list) |->
                                 IF c[i] > 0 THEN _spec_sub_rank_values[i] ELSE 0])
                       - (n.excl_sub_sum + d.excl_sub_sum),
         n_cts  |-> n.counts,
         d_cts  |-> d.counts,
         n_rids |-> n.rids,
         d_rids |-> d.rids]

(* "Build full results only for heap entries": one entry per heap key, in  *)
(* the heap's list order, then results.sort(...).                          *)
HeapResults(heap, result_map) ==
    SortResults(List([h \in 1..Len(heap) |->
        LET data == result_map[heap[h][4]]
            c == [i \in 1..Len(_spec_key_list) |-> data.n_cts[i] + data.d_cts[i]]
        IN  [required_met     |-> data.req_met,
             score            |-> data.score,
             sub_score        |-> data.sub_score,
             matched_keys     |-> MatchedOf(c),
             missing_required |-> MissingOf(c),
             excluded_present |-> ExcludedOf(data.n_rids \o data.d_rids),
             relics           |-> data.n_rids \o data.d_rids,
             normal_relics    |-> data.n_rids,
             deep_relics      |-> data.d_rids]]))

-----------------------------------------------------------------------------
(* format_results and _build_output *)

(* One formatted output of main's loop: parameters (the vessel key or the  *)
(* color of the call) and the ranked entries.  group is <<"vessel", key>>  *)
(* when vessel_info is given and <<"color", color>> in legacy mode.        *)
format_results(res, group, is_combined) ==
    [parameters |-> [group |-> group],
     results |-> List([rank \in 1..Len(res) |->
        LET e == res[rank]
            common == [rank            |-> rank,
                       score           |-> e.score,
                       subScore        |-> e.sub_score,
                       requiredMet     |-> e.required_met,
                       matchedEffects  |-> SortedKeys(e.matched_keys),
                       missingRequired |-> e.missing_required,
                       excludedPresent |-> SortedKeys(e.excluded_present),
                       group           |-> group]
        IN  IF is_combined
            THEN common @@ [normalRelics |-> e.normal_relics,
                            deepRelics   |-> e.deep_relics]
            ELSE common @@ [relics |-> e.relics]])]

(* Variant: the global sort on the score alone *)
FlatKey_score_only(r) == <<r.score>>

FlatKey(r) == <<BoolInt(r.requiredMet), r.score, r.subScore>>

_build_output(outputs, top_n) ==
    LET merged == Concat([v \in 1..Len(outputs) |-> outputs[v].results])
        sorted == SortDescBy(merged, [i \in 1..Len(merged) |-> FlatKey(merged[i])])
        cut    == Prefix(sorted, top_n)
        flat   == List([i \in 1..Len(cut) |-> [cut[i] EXCEPT !.rank = i]])
        firsts == {i \in 1..Len(flat) :
                     \A j \in 1..(i - 1) : flat[j].group # flat[i].group}
        order  == SortedInts(firsts)
        src_params(g) ==
            outputs[CHOOSE v \in 1..Len(outputs) :
                        /\ outputs[v].parameters.group = g
                        /\ \A u \in 1..(v - 1) : outputs[u].parameters.group # g
                   ].parameters
    IN  [flat |-> flat,
         bestResult |-> IF flat = <<>> THEN <<>>
                        ELSE <<[parameters |-> IF flat[1].group[1] = "vessel"
                                               THEN [group |-> flat[1].group]
                                               ELSE outputs[1].parameters,
                                result |-> flat[1]]>>,
         allResults |-> [g \in 1..Len(order) |->
                           [parameters |-> src_params(flat[order[g]].group),
                            results |-> SelectSeq(flat, LAMBDA r :
                                            r.group = flat[order[g]].group)]]]

-----------------------------------------------------------------------------
(* Inputs: inventories, wish lists, stacking data, vessels, arguments *)

MaxTopN == 2

MaxCands == 4

Eff(k) == [key |-> k]

Relic(id, color, type, effects) ==
    [id |-> id, itemColor |-> color, itemType |-> type, effects |-> effects]

(* Effects of the eight relics of an inventory: a mixed one, and one whose *)
(* first three relics carry the same two keys.                             *)
EffectsMixed ==
    <<  << <<Eff("A")>> >>,
        << <<Eff("A")>>, <<Eff("B")>> >>,
        << <<Eff("B"), Eff("X")>> >>,
        << <<Eff("C")>> >>,
        << <<Eff("A")>> >>,
        << <<Eff("B")>>, <<Eff("C")>> >>,
        << <<Eff("A"), Eff("X")>> >>,
        << >> >>

EffectsAlike ==
    <<  << <<Eff("A")>>, <<Eff("B")>> >>,
        << <<Eff("A")>>, <<Eff("B")>> >>,
        << <<Eff("A")>>, <<Eff("B")>> >>,
        << <<Eff("C")>> >>,
        << <<Eff("A")>> >>,
        << <<Eff("B")>>, <<Eff("C")>> >>,
        << <<Eff("A"), Eff("X")>> >>,
        << >> >>

(* ids 1..4 are on the ordinary side, 5..8 on the deep side *)
TypesOf == <<"Relic", "Relic", "Relic", "UniqueRelic",
             "DeepRelic", "DeepRelic", "DeepRelic", "DeepRelic">>

Inventory(colors, effects) ==
    [i \in 1..8 |-> Relic(i, colors[i], TypesOf[i], effects[i])]

Inventories ==
    { Inventory(<<"Red", "Red", "Red", "Red", "Red", "Red", "Red", "Red">>,
                EffectsMixed),
      Inventory(<<"Red", "Red", "Blue", "Red", "Red", "Blue", "Yellow", "Red">>,
                EffectsMixed),
      Inventory(<<"Red", "Red", "Red", "Red", "Yellow", "Yellow", "Yellow", "Yellow">>,
                EffectsAlike) }

SpecEntry(k, p, x, r) == [key |-> k, priority |-> p, exclude |-> x, rank |-> r]

SpecChoices ==
    { <<SpecEntry("A", "required", FALSE, 0), SpecEntry("B", "preferred", FALSE, 0),
        SpecEntry("X", "preferred", TRUE, 0)>>,
      <<SpecEntry("A", "preferred", FALSE, 0), SpecEntry("B", "nice_to_have", FALSE, 0),
        SpecEntry("C", "preferred", FALSE, 1), SpecEntry("X", "required", TRUE, 0)>>,
      <<SpecEntry("A", "required", FALSE, 0), SpecEntry("C", "required", FALSE, 1),
        SpecEntry("B", "nice_to_have", FALSE, 0)>>,
      <<SpecEntry("X", "preferred", TRUE, 0)>> }

StackingChoices ==
    { [A |-> "True", C |-> "conditional"],
      [A |-> "conditional", B |-> "True", C |-> "False"],
      [B |-> "conditional", C |-> "True"] }

Vessel(k, n, d) == [key |-> k, normalSlots |-> n, deepSlots |-> d]

VesselA == Vessel("urn", <<"Red", "Red", "Red">>, <<"Red", "Red", "Red">>)

VesselB == Vessel("chalice", <<"Blue", "Red", "Red">>, <<"Red", "Blue", "Yellow">>)

VesselC == Vessel("goblet", <<"Red", "Red", "Blue">>, <<"Any", "Red", "Red">>)

(* vessels_data as get_vessel_configs lists it for the character *)
VesselLists == { <<VesselA>>, <<VesselB, VesselC>> }

LegacyColors == <<"Red", "Blue", "Yellow", "Green">>

(* main's arguments.  normal_types / deep_types are the optional arguments *)
(* of optimize_combined: main leaves both out (None); a caller of the      *)
(* method may give them, as the second choice below does.                  *)
Args(mode, deep, types, nt, dt, color, top, cands) ==
    [mode |-> mode, deep |-> deep, types |-> types, normal_types |-> nt,
     deep_types |-> dt, color |-> color, top |-> top, candidates |-> cands]

ArgChoices ==
    UNION {
      {Args("combined", FALSE, {"Relic"}, NoneTypes, NoneTypes, None, top, cands),
       Args("combined", FALSE, {"Relic"}, NoneTypes, {"Relic", "DeepRelic"}, None,
            top, cands),
       Args("vessel", FALSE, {"Relic"}, NoneTypes, NoneTypes, None, top, cands),
       Args("vessel", TRUE, {"Relic"}, NoneTypes, NoneTypes, None, top, cands),
       Args("vessel", TRUE, {"DeepRelic"}, NoneTypes, NoneTypes, None, top, cands),
       Args("vessel", FALSE, {"Relic", "UniqueRelic"}, NoneTypes, NoneTypes, None,
            top, cands),
       Args("legacy", FALSE, {"Relic", "UniqueRelic"}, NoneTypes, NoneTypes, None,
            top, cands),
       Args("legacy", FALSE, {"DeepRelic"}, NoneTypes, NoneTypes, "Red", top, cands)}
      : top \in 0..MaxTopN, cands \in (MaxCands - 1)..MaxCands }

-----------------------------------------------------------------------------
(* The state machine: main's loop over the vessels (or colors), each call  *)
(* of optimize_combined run pair by pair.                                  *)

(* no direct call: main is running *)
NoCall == [fn |-> "main"]

NoFrame == [normal_top |-> <<>>, deep_top |-> <<>>, heap |-> <<>>,
            result_map |-> <<>>, counter |-> 0, ni |-> 0, di |-> 0]

Init ==
    /\ all_relics \in Inventories
    /\ effect_specs \in SpecChoices
    /\ stacking_data \in StackingChoices
    /\ effect_lookup = BuildLookup(include_specs(effect_specs))
    /\ exclude_lookup = BuildLookup(exclude_specs(effect_specs))
    /\ _spec_sub_rank_values =
          SubRankValues(include_specs(effect_specs),
                        SortedKeys(DOMAIN BuildLookup(include_specs(effect_specs))))
    /\ _excl_sub_rank_values =
          SubRankValues(exclude_specs(effect_specs),
                        SortedKeys(DOMAIN BuildLookup(exclude_specs(effect_specs))))
    /\ _phase_cache = <<>>
    /\ args \in ArgChoices
    /\ vessel_configs \in VesselLists
    /\ vi = 1
    /\ pc = "idle"
    /\ frame = NoFrame
    /\ results = <<>>
    /\ all_output = <<>>
    /\ output_data = <<>>
    /\ call = NoCall
    /\ ret = NoCall
    /\ _spec_keys_cache = <<>>
    /\ _exclude_keys_cache = <<>>
    /\ _score_cache = <<>>

Inputs == <<all_relics, effect_specs, stacking_data, effect_lookup, exclude_lookup,
            _spec_sub_rank_values, _excl_sub_rank_values, args, vessel_configs,
            call, ret>>

Colors == IF args.color # None THEN <<args.color>> ELSE LegacyColors

NumItems == IF args.mode = "legacy" THEN Len(Colors) ELSE Len(vessel_configs)

(* get_vessel_configs: 'slots' is deepSlots under --deep, else normalSlots *)
Slots(vc) == IF args.deep THEN vc.deepSlots ELSE vc.normalSlots

(* main, single mode: optimize_for_vessel on the vessel's slots *)
MainSingle ==
    /\ pc = "idle" /\ args.mode = "vessel" /\ vi <= NumItems
    /\ results' = optimize_for_vessel(Slots(vessel_configs[vi]), args.types,
                                      args.candidates, args.top)
    /\ SetCaches(VesselCaches(Slots(vessel_configs[vi]), args.types, CachesNow))
    /\ pc' = "returned"
    /\ UNCHANGED <<Inputs, _phase_cache, vi, frame, all_output, output_data>>

(* main, legacy mode: optimize_legacy on the color *)
MainLegacy ==
    /\ pc = "idle" /\ args.mode = "legacy" /\ vi <= NumItems
    /\ results' = optimize_legacy(Colors[vi], args.types, 3, args.candidates,
                                  args.top)
    /\ SetCaches(LegacyCaches(Colors[vi], args.types, CachesNow))
    /\ pc' = "returned"
    /\ UNCHANGED <<Inputs, _phase_cache, vi, frame, all_output, output_data>>

(* optimize_combined at the end of Phases 1-2: ph is CombinedPhases12 *)
EnterPhase3(ph) ==
    /\ _phase_cache' = ph.cache
    /\ IF ph.returns
       THEN /\ results' = ph.value
            /\ pc' = "returned"
            /\ frame' = NoFrame
       ELSE /\ results' = <<>>
            /\ pc' = "outer"
            /\ frame' = [normal_top |-> ph.normal_top,
                         deep_top |-> ph.deep_top,
                         heap |-> <<>>, result_map |-> <<>>,
                         counter |-> 0, ni |-> 1, di |-> 0]

(* optimize_combined, from its entry to the start of the pairing loop *)
CombinedBegin ==
    /\ pc = "idle" /\ args.mode = "combined" /\ vi <= NumItems
    /\ EnterPhase3(CombinedPhases12(vessel_configs[vi].normalSlots,
                                    vessel_configs[vi].deepSlots,
                                    args.normal_types, args.deep_types,
                                    args.candidates, args.top))
    /\ SetCaches(CombinedCaches(vessel_configs[vi].normalSlots,
                                vessel_configs[vi].deepSlots,
                                DefaultTypes(args.normal_types, {"Relic", "UniqueRelic"}),
                                DefaultTypes(args.deep_types, {"DeepRelic"}),
                                args.candidates, CachesNow))
    /\ UNCHANGED <<Inputs, vi, all_output, output_data>>

best_deep_score == frame.deep_top[1].score

bound_req_int == BoundReqInt(frame.normal_top, frame.deep_top)

(* best_possible >= (heap[0][0], heap[0][1]) *)
Prunes(bound_score) ==
    LexGE(<<bound_req_int, 0 - bound_score>>, <<frame.heap[1][1], frame.heap[1][2]>>)

(* Head of the outer loop: the next ordinary triple, or the end of the     *)
(* loop; the outer pruning check reads heap[0], an IndexError on an empty  *)
(* heap.                                                                   *)
OuterStep ==
    /\ pc = "outer"
    /\ IF frame.ni > Len(frame.normal_top)
       THEN pc' = "build" /\ frame' = frame
       ELSE IF Len(frame.heap) >= args.top
       THEN IF frame.heap = <<>>
            THEN pc' = "raised" /\ frame' = frame
            ELSE IF Prunes(frame.normal_top[frame.ni].score + best_deep_score)
            THEN pc' = "build" /\ frame' = frame
            ELSE pc' = "inner" /\ frame' = [frame EXCEPT !.di = 1]
       ELSE pc' = "inner" /\ frame' = [frame EXCEPT !.di = 1]
    /\ UNCHANGED <<Inputs, Caches, _phase_cache, vi, results, all_output, output_data>>

(* One iteration of the inner loop: the end of the deep list, the inner    *)
(* pruning break, or the evaluation of one cross pair and its admission to *)
(* the heap.                                                               *)
InnerStep ==
    /\ pc = "inner"
    /\ IF frame.di > Len(frame.deep_top)
       THEN pc' = "outer" /\ frame' = [frame EXCEPT !.ni = @ + 1, !.di = 0]
       ELSE LET n == frame.normal_top[frame.ni]
                d == frame.deep_top[frame.di]
                pr == PairRecord(n, d)
                heap_key == <<0 - BoolInt(pr.req_met), 0 - pr.score,
                              0 - pr.sub_score, frame.counter>>
            IN  IF Len(frame.heap) >= args.top /\ Prunes(n.score + d.score)
                THEN pc' = "outer" /\ frame' = [frame EXCEPT !.ni = @ + 1, !.di = 0]
                ELSE /\ pc' = "inner"
                     /\ frame' =
                          IF Len(frame.heap) < args.top
                          THEN [frame EXCEPT
                                  !.heap = heappush(@, heap_key),
                                  !.result_map = (frame.counter :> pr) @@ @,
                                  !.counter = @ + 1, !.di = @ + 1]
                          ELSE IF LexLT(heap_key, frame.heap[1])
                          THEN [frame EXCEPT
                                  !.heap = heapreplace(@, heap_key),
                                  !.result_map =
                                      [c \in (DOMAIN @ \ {frame.heap[1][4]})
                                              \cup {frame.counter} |->
                                          IF c = frame.counter THEN pr ELSE @[c]],
                                  !.counter = @ + 1, !.di = @ + 1]
                          ELSE [frame EXCEPT !.counter = @ + 1, !.di = @ + 1]
    /\ UNCHANGED <<Inputs, Caches, _phase_cache, vi, results, all_output, output_data>>

(* After the loops: the entries of the heap, sorted, are returned *)
BuildResults ==
    /\ pc = "build"
    /\ results' = HeapResults(frame.heap, frame.result_map)
    /\ pc' = "returned"
    /\ UNCHANGED <<Inputs, Caches, _phase_cache, vi, frame, all_output, output_data>>

(* main: format_results on the returned list, appended to all_output *)
FormatAppend ==
    /\ pc = "returned"
    /\ all_output' = Append(all_output,
          format_results(results,
                         IF args.mode = "legacy" THEN <<"color", Colors[vi]>>
                         ELSE <<"vessel", vessel_configs[vi].key>>,
                         args.mode = "combined"))
    /\ vi' = vi + 1
    /\ pc' = "idle"
    /\ UNCHANGED <<Inputs, Caches, _phase_cache, frame, results, output_data>>

(* main, after the loop: _build_output(all_output, top_n=args.top) *)
BuildOutput ==
    /\ pc = "idle" /\ vi > NumItems
    /\ output_data' = <<_build_output(all_output, args.top)>>
    /\ pc' = "done"
    /\ UNCHANGED <<Inputs, Caches, _phase_cache, vi, frame, results, all_output>>

Next ==
    \/ MainSingle
    \/ MainLegacy
    \/ CombinedBegin
    \/ OuterStep
    \/ InnerStep
    \/ BuildResults
    \/ FormatAppend
    \/ BuildOutput

Spec == Init /\ [][Next]_vars

-----------------------------------------------------------------------------
(* Vocabulary of the properties: what an entry's relics carry, read from   *)
(* the inventory and the wish list, not from the optimizer's tables.        *)

Returned == pc = "returned"

(* optimize_combined returned after running the Phase-3 pairing *)
Paired == pc = "returned" /\ args.mode = "combined" /\ frame # NoFrame

CarriedKeys(rids) ==
    UNION {Range(EffectKeys(_relic_by_id(rids[i]))) : i \in 1..Len(rids)}

RequiredInclude ==
    {effect_specs[i].key : i \in {j \in 1..Len(effect_specs) :
        ~effect_specs[j].exclude /\ effect_specs[j].priority = "required"}}

RequiredExclude ==
    {effect_specs[i].key : i \in {j \in 1..Len(effect_specs) :
        effect_specs[j].exclude /\ effect_specs[j].priority = "required"}}

IncludeKeys == {effect_specs[i].key : i \in {j \in 1..Len(effect_specs) :
                                                ~effect_specs[j].exclude}}

ExcludeKeys == {effect_specs[i].key : i \in {j \in 1..Len(effect_specs) :
                                                effect_specs[j].exclude}}

IsDescending(keys) ==
    \A i \in 1..(Len(keys) - 1) : ~LexLT(keys[i], keys[i + 1])

(* occurrences of key k over the relics rids, slot by slot *)
KeyCount(rids, k) ==
    SumSeq([i \in 1..Len(rids) |-> Occurrences(EffectKeys(_relic_by_id(rids[i])), k)])

(* the stacking rules on the count vector rebuilt from the relics rids,    *)
(* plus the per-relic concentration bonuses, minus the per-relic exclude   *)
(* weights                                                                 *)
RuleScore(rids) ==
    LET ks == SortedKeys(IncludeKeys)
        xs == SortedKeys(ExcludeKeys)
        w(k) == effect_lookup[k].weight
        term(k) ==
            LET c == KeyCount(rids, k)
            IN  IF c = 0 THEN 0
                ELSE IF StackingOf(k) = "True" THEN w(k) * c
                ELSE IF StackingOf(k) = "conditional"
                     THEN w(k) - ((3 * w(k)) \div 10) * (c - 1)
                ELSE w(k) - (w(k) \div 2) * (c - 1)
        n_inc(rid) == SumSeq([j \in 1..Len(ks) |-> KeyCount(<<rid>>, ks[j])])
    IN  SumSeq([j \in 1..Len(ks) |-> term(ks[j])])
        + SumSeq([i \in 1..Len(rids) |-> ConcBonus(n_inc(rids[i]))])
        - SumSeq([j \in 1..Len(xs) |->
                    exclude_lookup[xs[j]].weight * KeyCount(rids, xs[j])])

(* include sub-rank values of the include keys present minus exclude       *)
(* sub-rank values of the exclude keys present, each present key once      *)
RuleSubScore(rids) ==
    LET ks == SortedKeys(IncludeKeys \cap CarriedKeys(rids))
        xs == SortedKeys(ExcludeKeys \cap CarriedKeys(rids))
    IN  SumSeq([j \in 1..Len(ks) |-> _spec_sub_rank_values[_spec_key_to_idx(ks[j])]])
        - SumSeq([j \in 1..Len(xs) |-> _excl_sub_rank_values[_excl_key_to_idx(xs[j])]])

ColorsFit(rids, slot_colors) ==
    /\ Len(rids) = Len(slot_colors)
    /\ \A i \in 1..Len(rids) :
          slot_colors[i] # "Any" => _relic_by_id(rids[i]).itemColor = slot_colors[i]

TypesIn(rids, types) ==
    \A i \in 1..Len(rids) : _relic_by_id(rids[i]).itemType \in types

-----------------------------------------------------------------------------
(* Properties *)

(* C1: when both sides have a triple, optimize_combined returns exactly    *)
(* min(top_n, |normal_top| * |deep_top|) entries, and no cross pair left   *)
(* out ranks strictly above a returned entry under (required_met, score,   *)
(* sub_score).                                                             *)
C1_TopPairsReturned ==
    Paired =>
        /\ Len(results) = Min2(args.top, Len(frame.normal_top) * Len(frame.deep_top))
        /\ \A n \in 1..Len(frame.normal_top), d \in 1..Len(frame.deep_top) :
              LET pr == PairRecord(frame.normal_top[n], frame.deep_top[d])
                  left_out == \A r \in 1..Len(results) :
                                  \/ results[r].normal_relics # pr.n_rids
                                  \/ results[r].deep_relics # pr.d_rids
              IN  left_out =>
                    \A r \in 1..Len(results) :
                        ~LexLT(RankKey(results[r]),
                               <<BoolInt(pr.req_met), pr.score, pr.sub_score>>)

(* C2: every returned list of ranked entries, the one-side lists of        *)
(* optimize_combined included, and the global list of _build_output are    *)
(* in descending order of (required_met, score, sub_score).                *)
C2_ListsDescending ==
    /\ Returned => IsDescending([i \in 1..Len(results) |-> RankKey(results[i])])
    /\ pc = "done" =>
          IsDescending([i \in 1..Len(output_data[1].flat) |->
                            FlatKey(output_data[1].flat[i])])

(* C3: in every mode, required_met of a returned entry is true exactly     *)
(* when every REQUIRED include key is carried by a relic of the entry and  *)
(* no relic of the entry carries a REQUIRED exclude key.                   *)
C3_RequiredMetIff ==
    Returned =>
        \A r \in 1..Len(results) :
            results[r].required_met <=>
                /\ RequiredInclude \subseteq CarriedKeys(results[r].relics)
                /\ RequiredExclude \cap CarriedKeys(results[r].relics) = {}

(* C3 witness: a combined call returned an entry with required_met true    *)
(* and one whose required include keys are all covered but which carries   *)
(* a REQUIRED exclude key.                                                 *)
C3_Witness ==
    /\ Paired
    /\ \E r \in 1..Len(results) : results[r].required_met
    /\ \E r \in 1..Len(results) :
          /\ ~results[r].required_met
          /\ RequiredInclude \subseteq CarriedKeys(results[r].relics)
          /\ RequiredExclude \cap CarriedKeys(results[r].relics) # {}

(* C4: no returned entry of optimize_for_vessel, optimize_legacy or        *)
(* optimize_combined, whatever normal_types and deep_types are, holds the  *)
(* same relic id in two of its slots.                                      *)
C4_NoDuplicateRelic ==
    Returned =>
        \A r \in 1..Len(results) :
            Cardinality(Range(results[r].relics)) = Len(results[r].relics)

(* C5: every entry returned by optimize_for_vessel has, at each position,  *)
(* a relic of the slot's color unless the slot is Any, and only relics     *)
(* whose itemType is in the types argument.                                *)
C5_SingleSideColorsAndTypes ==
    (Returned /\ args.mode = "vessel") =>
        \A r \in 1..Len(results) :
            /\ ColorsFit(results[r].relics, Slots(vessel_configs[vi]))
            /\ TypesIn(results[r].relics, args.types)

(* C5 witness: optimize_for_vessel returned an entry for a pattern with an *)
(* Any slot and one for a pattern of two colors, from an inventory that    *)
(* has relics of other colors and types.                                   *)
C5_Witness ==
    /\ Returned /\ args.mode = "vessel" /\ results # <<>>
    /\ "Any" \in Range(Slots(vessel_configs[vi]))
    /\ \E i \in 1..Len(all_relics) : all_relics[i].itemColor = "Blue"
    /\ \E i \in 1..Len(all_relics) : all_relics[i].itemType \notin args.types
    /\ vi = 2 /\ all_output[1].results # <<>>

(* C6: every entry returned by optimize_combined has, at each position of  *)
(* normal_relics and of deep_relics, a relic of that slot's color unless   *)
(* the slot is Any, for every ordering of the pattern's colors and for     *)
(* triples taken from the phase cache.                                     *)
C6_CombinedColorsByPosition ==
    (Returned /\ args.mode = "combined") =>
        \A r \in 1..Len(results) :
            /\ results[r].normal_relics # <<>> =>
                  ColorsFit(results[r].normal_relics, vessel_configs[vi].normalSlots)
            /\ results[r].deep_relics # <<>> =>
                  ColorsFit(results[r].deep_relics, vessel_configs[vi].deepSlots)

(* C7: in every returned entry a DeepRelic sits only in a deep-side slot   *)
(* and a Relic or UniqueRelic only in an ordinary-side slot: in combined   *)
(* mode, and in single-side mode without --deep (ordinary slots) and with  *)
(* --deep (the vessel's deepSlots, the type filter being --types).         *)
C7_TypesBySide ==
    (Returned /\ args.normal_types = NoneTypes /\ args.deep_types = NoneTypes) =>
        \A r \in 1..Len(results) :
            IF args.mode = "combined"
            THEN /\ TypesIn(results[r].normal_relics, {"Relic", "UniqueRelic"})
                 /\ TypesIn(results[r].deep_relics, {"DeepRelic"})
            ELSE IF args.mode = "vessel"
            THEN IF args.deep
                 THEN TypesIn(results[r].relics, {"DeepRelic"})
                 ELSE TypesIn(results[r].relics, {"Relic", "UniqueRelic"})
            ELSE TRUE

(* C8: in every mode, matchedEffects of an entry is exactly the set of     *)
(* include keys among the effects of the entry's relics and                *)
(* missingRequired exactly the REQUIRED include keys not matched, in the   *)
(* returned entries and in the formatted output.                           *)
C8_MatchedAndMissingExact ==
    /\ Returned =>
          \A r \in 1..Len(results) :
              /\ results[r].matched_keys
                    = IncludeKeys \cap CarriedKeys(results[r].relics)
              /\ Range(results[r].missing_required)
                    = RequiredInclude \ CarriedKeys(results[r].relics)
    /\ \A v \in 1..Len(all_output) :
          \A r \in 1..Len(all_output[v].results) :
              LET e == all_output[v].results[r]
                  rids == IF args.mode = "combined"
                          THEN e.normalRelics \o e.deepRelics ELSE e.relics
              IN  /\ e.matchedEffects = SortedKeys(IncludeKeys \cap CarriedKeys(rids))
                  /\ e.missingRequired
                        = SortedKeys(RequiredInclude \ CarriedKeys(rids))

(* C8 witness: the second combined call took its ordinary triples from the *)
(* phase cache and returned an entry with a matched key and a missing      *)
(* REQUIRED key.                                                           *)
C8_Witness ==
    /\ Paired /\ vi = 2
    /\ NormalCacheKey(vessel_configs[2].normalSlots)
          = NormalCacheKey(vessel_configs[1].normalSlots)
    /\ \E r \in 1..Len(results) :
          /\ results[r].matched_keys # {}
          /\ results[r].missing_required # <<>>

(* C9: the score stored for every enumerated triple and for every cross    *)
(* pair of combined mode is the stacking-rule sum over the count vector    *)
(* rebuilt from its relics (w*c stackable, w - floor(0.3w)(c-1)            *)
(* conditional, w - floor(0.5w)(c-1) non-stackable), plus the per-relic    *)
(* concentration bonuses, minus the per-relic exclude weights.             *)
C9_StoredScoreIsRuleScore ==
    /\ \A k \in DOMAIN _phase_cache :
          \A t \in 1..Len(_phase_cache[k]) :
              _phase_cache[k][t].score = RuleScore(_phase_cache[k][t].rids)
    /\ \A c \in DOMAIN frame.result_map :
          frame.result_map[c].score
              = RuleScore(frame.result_map[c].n_rids \o frame.result_map[c].d_rids)
    /\ (Returned /\ args.mode = "combined") =>
          \A r \in 1..Len(results) : results[r].score = RuleScore(results[r].relics)

(* C9 witness: a combined call returned a cross pair in which a            *)
(* conditional key and a non-stackable key each occur at least twice and   *)
(* a relic carries two include keys.                                       *)
C9_Witness ==
    /\ Paired
    /\ \E r \in 1..Len(results) :
          /\ \E k \in IncludeKeys :
                StackingOf(k) = "conditional" /\ KeyCount(results[r].relics, k) >= 2
          /\ \E k \in IncludeKeys :
                StackingOf(k) = "False" /\ KeyCount(results[r].relics, k) >= 2
          /\ \E i \in 1..Len(results[r].relics) :
                Cardinality(IncludeKeys
                    \cap CarriedKeys(<<results[r].relics[i]>>)) >= 2

(* C10: in every returned entry of every mode, sub_score is the sum of the *)
(* include sub-rank values of the include keys present minus the sum of    *)
(* the exclude sub-rank values of the exclude keys present, each present   *)
(* key counted once.                                                       *)
C10_SubScoreIsRuleSubScore ==
    Returned =>
        \A r \in 1..Len(results) :
            results[r].sub_score = RuleSubScore(results[r].relics)

-----------------------------------------------------------------------------
(* Candidate lists of a call, read against the filtered pool *)

(* ids of the relics of the pool that fit a slot of color c *)
PoolIds(filtered, c) ==
    {filtered[i].id : i \in {j \in 1..Len(filtered) :
                                c = "Any" \/ filtered[j].itemColor = c}}

(* those of them that carry at least one include-table effect *)
WantedIds(filtered, c) ==
    {rid \in PoolIds(filtered, c) : IncludeKeys \cap CarriedKeys(<<rid>>) # {}}

IdSet(relics) == {relics[i].id : i \in 1..Len(relics)}

HoldsWanted(cands, filtered, slot_colors, cps) ==
    \A s \in 1..Len(slot_colors) :
        Cardinality(WantedIds(filtered, slot_colors[s])) <= cps
            => WantedIds(filtered, slot_colors[s]) \subseteq IdSet(cands[s])

AtMostCap(cands, cps) == \A s \in 1..Len(cands) : Len(cands[s]) <= cps

(* the pools and candidate lists of the current optimize_combined call *)
NormalFiltered ==
    filter_relics(DefaultTypes(args.normal_types, {"Relic", "UniqueRelic"}), None)

DeepFiltered == filter_relics(DefaultTypes(args.deep_types, {"DeepRelic"}), None)

NormalCands ==
    _build_slot_candidates(vessel_configs[vi].normalSlots, NormalFiltered,
                           args.candidates)

DeepCands ==
    _build_slot_candidates(vessel_configs[vi].deepSlots, DeepFiltered, args.candidates)

(* optimize_combined has built both candidate tables and is at the head of *)
(* its pairing loop; the tables depend on the arguments only and stay as   *)
(* built until the method returns                                          *)
CombinedCalled == args.mode = "combined" /\ pc = "outer"

(* the pool and candidate lists of the current optimize_for_vessel call *)
VesselFiltered == filter_relics(args.types, None)

VesselCands ==
    VesselSlotCandidates(Slots(vessel_configs[vi]), VesselFiltered, args.candidates)

(* a slot whose pool is larger than the cap while its wanted relics fit,   *)
(* one of them scoring below an unwanted relic of the pool                 *)
CrowdedSlot(filtered, c, cps) ==
    /\ Cardinality(PoolIds(filtered, c)) > cps
    /\ Cardinality(WantedIds(filtered, c)) <= cps
    /\ \E w \in WantedIds(filtered, c) :
          \E o \in PoolIds(filtered, c) \ WantedIds(filtered, c) :
              score_relic(_relic_by_id(w)) < score_relic(_relic_by_id(o))

(* C11: _build_slot_candidates returns at most candidates_per_slot relics  *)
(* per slot, and a slot's list holds every color-matching relic of the     *)
(* filtered pool that carries an include-table effect whenever there are   *)
(* at most candidates_per_slot of them, whatever their scores.             *)
C11_BuiltCandidatesHoldWanted ==
    CombinedCalled =>
        /\ AtMostCap(NormalCands, args.candidates)
        /\ AtMostCap(DeepCands, args.candidates)
        /\ HoldsWanted(NormalCands, NormalFiltered, vessel_configs[vi].normalSlots,
                       args.candidates)
        /\ HoldsWanted(DeepCands, DeepFiltered, vessel_configs[vi].deepSlots,
                       args.candidates)

(* C11 witness: optimize_combined ran on a deep slot whose pool exceeds    *)
(* the cap, whose wanted relics fit, one of them with a negative score     *)
(* below an unwanted relic's.                                              *)
C11_Witness ==
    /\ CombinedCalled
    /\ \E s \in 1..3 :
          /\ CrowdedSlot(DeepFiltered, vessel_configs[vi].deepSlots[s], args.candidates)
          /\ \E w \in WantedIds(DeepFiltered, vessel_configs[vi].deepSlots[s]) :
                score_relic(_relic_by_id(w)) < 0

(* C12: in optimize_for_vessel each slot's candidate list holds every      *)
(* color-matching relic of the filtered pool that carries an include-table *)
(* effect, whenever there are at most candidates_per_slot of them.         *)
C12_VesselCandidatesHoldWanted ==
    (Returned /\ args.mode = "vessel") =>
        HoldsWanted(VesselCands, VesselFiltered, Slots(vessel_configs[vi]),
                    args.candidates)

HasEmptySlot(cands) == \E s \in 1..Len(cands) : Len(cands[s]) = 0

(* C13: a vessel with an empty candidate list in any slot gets zero        *)
(* results, in optimize_for_vessel and in optimize_combined (any of the    *)
(* six slots), the remaining vessels are still processed, and every entry  *)
(* of optimize_combined has three ordinary and three deep relics.          *)
C13_EmptySlotGivesNoResults ==
    /\ (Returned /\ args.mode = "vessel" /\ HasEmptySlot(VesselCands))
          => results = <<>>
    /\ (Returned /\ args.mode = "combined")
          => /\ (HasEmptySlot(NormalCands) \/ HasEmptySlot(DeepCands))
                    => results = <<>>
             /\ \A r \in 1..Len(results) :
                    /\ Len(results[r].normal_relics) = 3
                    /\ Len(results[r].deep_relics) = 3
    /\ pc = "done" => Len(all_output) = NumItems

-----------------------------------------------------------------------------
(* The output document *)

(* all per-vessel (per-color) result lists, one after the other *)
RECURSIVE MergedResults(_)
MergedResults(v) ==
    IF v = 0 THEN <<>> ELSE MergedResults(v - 1) \o all_output[v].results

Unranked(e) == [e EXCEPT !.rank = 0]

OutputKey(e) == <<BoolInt(e.requiredMet), e.score, e.subScore>>

RECURSIVE GroupedResults(_, _)
GroupedResults(groups, g) ==
    IF g = 0 THEN <<>> ELSE GroupedResults(groups, g - 1) \o groups[g].results

(* C14: the global list of _build_output is the first top_n entries of    *)
(* all per-vessel (per-color) results sorted by (requiredMet, score,       *)
(* subScore) descending, ranked 1..k in that order; bestResult.result is   *)
(* the rank-1 entry; the entries of allResults are exactly those of the    *)
(* global list, each once.                                                 *)
C14_GlobalListIsTopOfMerged ==
    pc = "done" =>
        LET out == output_data[1]
            merged == MergedResults(Len(all_output))
            kept == {Unranked(out.flat[i]) : i \in 1..Len(out.flat)}
            pool == {Unranked(merged[i]) : i \in 1..Len(merged)}
            grouped == GroupedResults(out.allResults, Len(out.allResults))
        IN  /\ Len(out.flat) = Min2(args.top, Len(merged))
            /\ Cardinality(kept) = Len(out.flat)
            /\ kept \subseteq pool
            /\ \A e \in pool \ kept : \A k \in kept :
                    ~LexLT(OutputKey(k), OutputKey(e))
            /\ \A i \in 1..Len(out.flat) : out.flat[i].rank = i
            /\ \A i \in 1..(Len(out.flat) - 1) :
                    ~LexLT(OutputKey(out.flat[i]), OutputKey(out.flat[i + 1]))
            /\ IF out.flat = <<>> THEN out.bestResult = <<>>
               ELSE out.bestResult[1].result = out.flat[1]
            /\ Len(grouped) = Len(out.flat)
            /\ Range(grouped) = Range(out.flat)

(* C14 witness: the output of a run over two vessels whose global list     *)
(* has fewer entries than the vessels returned, starts with an entry of    *)
(* the second vessel and keeps an entry of the first vessel whose rank     *)
(* is renumbered, so that allResults has two groups.                       *)
C14_Witness ==
    /\ pc = "done" /\ Len(all_output) = 2
    /\ Len(MergedResults(2)) > Len(output_data[1].flat)
    /\ Len(output_data[1].flat) = 2
    /\ output_data[1].flat[1].group = all_output[2].parameters.group
    /\ output_data[1].flat[2].group = all_output[1].parameters.group
    /\ Len(output_data[1].allResults) = 2
    /\ \E i \in 1..2 : \E r \in 1..Len(all_output[i].results) :
          /\ Unranked(all_output[i].results[r]) = Unranked(output_data[1].flat[2])
          /\ all_output[i].results[r].rank # 2

-----------------------------------------------------------------------------
(* Edge cases *)

(* sum of the exclude weights carried by the relics rids, relic by relic *)
ExcludeWeightSum(rids) ==
    LET xs == SortedKeys(ExcludeKeys)
    IN  SumSeq([j \in 1..Len(xs) |->
                    PRIORITY_WEIGHTS[exclude_lookup[xs[j]].priority]
                        * KeyCount(rids, xs[j])])

(* C15: optimize_for_vessel, optimize_legacy and optimize_combined never   *)
(* raise on an empty include table, an empty exclude table, a side with no *)
(* triples, fewer relics than slots or top_n = 0; with an empty include    *)
(* table every entry's score is minus the sum of its relics' exclude       *)
(* weights.                                                                *)
C15_NoRaiseOnEdgeCases ==
    /\ pc # "raised"
    /\ (Returned /\ IncludeKeys = {}) =>
          \A r \in 1..Len(results) :
              results[r].score = 0 - ExcludeWeightSum(results[r].relics)

-----------------------------------------------------------------------------
(* Direct calls of load_effects_config and of the two stacking scorers *)

MaxConfigLen == 2

MaxCount == 3

(* A JSON value found under 'priority' in the effects file; "missing" is   *)
(* an entry without the field (eff.get('priority') is None, as for null).  *)
JsonString(v) == [type |-> "string", value |-> v]

PriorityValues ==
    { JsonString("required"), JsonString("preferred"), JsonString("nice_to_have"),
      JsonString("high"),
      [type |-> "null", value |-> "null"],
      [type |-> "missing", value |-> "missing"],
      [type |-> "array", value |-> "required"] }

ConfigChoices ==
    UNION { [1..n -> [key : {"A", "B"}, priority : PriorityValues, exclude : BOOLEAN]]
            : n \in 1..MaxConfigLen }

(* `x in PRIORITY_WEIGHTS` hashes x: a list or a dict raises TypeError *)
Hashable(p) == p.type \notin {"array", "object"}

InPriorityWeights(p) == p.type = "string" /\ p.value \in DOMAIN PRIORITY_WEIGHTS

(* The loop runs entry by entry and stops at the first entry whose         *)
(* priority cannot be hashed; warnings are the indices of the entries      *)
(* reported on stderr.                                                     *)
load_effects_config(effects) ==
    LET unhashable == {i \in 1..Len(effects) : ~Hashable(effects[i].priority)}
        reached == {i \in 1..Len(effects) : \A j \in unhashable : i < j}
        unknown == {i \in reached : ~InPriorityWeights(effects[i].priority)}
    IN  [raised |-> unhashable # {},
         warnings |-> SortedInts(unknown),
         effects |-> IF unhashable # {} THEN <<>>
                     ELSE [i \in 1..Len(effects) |->
                             IF i \in unknown
                             THEN [effects[i] EXCEPT
                                     !.priority = JsonString("nice_to_have")]
                             ELSE effects[i]]]

(* Direct construction of a RelicOptimizer: entries of the wish list with  *)
(* an optional key and optional names, relics whose effects carry names.   *)
(* A name is a sequence of characters; a missing name (None) and the empty *)
(* name '' are both false in the code's tests and are the empty sequence.  *)
MaxSpecLen == 2

NamedEff(k, ja, en) == [key |-> k, name_ja |-> ja, name_en |-> en]

NamedRelics ==
    << [id |-> 1, effects |-> << <<NamedEff("A", <<"x", "y">>, <<"F", "i">>)>>,
                                 <<NamedEff("C", <<>>, <<>>)>> >>],
       [id |-> 2, effects |-> << <<NamedEff("B", <<"x", "z">>, <<"f", "o">>),
                                   NamedEff("A", <<"x", "y">>, <<"F", "i">>)>> >>] >>

NamedEntries ==
    [key : {None, "A", "B"}, name_ja : {<<>>, <<"x">>}, name_en : {<<>>, <<"I">>},
     priority : {"required", "preferred"}, exclude : BOOLEAN]

NamedSpecChoices == UNION {[1..n -> NamedEntries] : n \in 1..MaxSpecLen}

(* str.lower() on the letters the names use *)
LowerChar(c) == IF c = "F" THEN "f" ELSE IF c = "I" THEN "i" ELSE c

Lower(name) == [i \in 1..Len(name) |-> LowerChar(name[i])]

(* a in b, for strings *)
IsSubstring(a, b) ==
    \E i \in 0..(Len(b) - Len(a)) : SubSeq(b, i + 1, i + Len(a)) = a

(* truthiness of an optional name *)
Given(name) == name # <<>>

(* the effects of the inventory, relic by relic, group by group *)
NamedEffects(relics) ==
    Concat([r \in 1..Len(relics) |-> Concat(relics[r].effects)])

Binding(spec, weight) == [priority |-> spec.priority, weight |-> weight]

(* every effect of the inventory whose name holds name_ja, or whose        *)
(* lower-cased English name holds the lower-cased name_en, binds its key   *)
(* unless the key is in the table already                                  *)
_resolve_name_matches(name_ja, name_en, spec, weight, target_lookup, relics) ==
    LET effs == NamedEffects(relics)
        matched(eff) ==
            \/ Given(name_ja) /\ IsSubstring(name_ja, eff.name_ja)
            \/ Given(name_en) /\ IsSubstring(Lower(name_en), Lower(eff.name_en))
        hits == {effs[i].key : i \in {j \in 1..Len(effs) : matched(effs[j])}}
    IN  [k \in DOMAIN target_lookup \cup hits |->
            IF k \in DOMAIN target_lookup THEN target_lookup[k]
            ELSE Binding(spec, weight)]

(* the loop of __init__ over include_specs (or exclude_specs): an entry's  *)
(* own key is assigned, then its names are resolved                        *)
RECURSIVE BuildNamedLookup(_, _, _)
BuildNamedLookup(specs, relics, lookup) ==
    IF specs = <<>> THEN lookup
    ELSE LET spec   == Head(specs)
             weight == PRIORITY_WEIGHTS[spec.priority]
             keyed  == IF spec.key # None
                       THEN [k \in DOMAIN lookup \cup {spec.key} |->
                               IF k = spec.key THEN Binding(spec, weight)
                               ELSE lookup[k]]
                       ELSE lookup
             named  == IF Given(spec.name_ja) \/ Given(spec.name_en)
                       THEN _resolve_name_matches(spec.name_ja, spec.name_en, spec,
                                                  weight, keyed, relics)
                       ELSE keyed
         IN  BuildNamedLookup(Tail(specs), relics, named)

(* Sub-rank values of two entries of a wish list, one in a priority group  *)
(* of group_size MaxHighGroup at most, the other in a group of a lower     *)
(* priority of group_size MaxGroup at most.                                *)
MaxHighGroup == 3

MaxGroup == 100

(* self._spec_sub_rank_values[idx] = (group_size - rank) * tier *)
SubRankOf(group_size, rank, priority) == (group_size - rank) * SUB_RANK_TIER[priority]

PriorityPairs ==
    { <<"required", "preferred">>, <<"preferred", "nice_to_have">>,
      <<"required", "nice_to_have">> }

(* Direct calls of score_relic: relics of up to MaxGroups effect groups,   *)
(* a group being a primary effect alone or with one sub-effect.            *)
MaxGroups == 2

EffectGroups ==
    {<<Eff(k)>> : k \in Range(KeyOrder)}
    \cup {<<Eff(k), Eff(x)>> : k \in Range(KeyOrder), x \in Range(KeyOrder)}

ScoredRelics ==
    {Relic(1, "Red", "Relic", e) : e \in UNION {[1..n -> EffectGroups] : n \in 0..MaxGroups}}

(* the wish list and the stacking data of the scorer calls *)
ScoreSpecs ==
    <<SpecEntry("A", "required", FALSE, 0), SpecEntry("B", "preferred", FALSE, 0),
      SpecEntry("C", "nice_to_have", FALSE, 0)>>

StackingKinds == [{"A", "B", "C"} -> {"True", "conditional", "False"}]

(* effect_counts dictionaries: the keys present, each with a count >= 1 *)
CountDicts == UNION {[S -> 1..MaxCount] : S \in SUBSET {"A", "B", "C"}}

(* the counts tuple of the compact format for the same counts *)
CountVector(effect_counts) ==
    List([i \in 1..Len(_spec_key_list) |->
            IF _spec_key_list[i] \in DOMAIN effect_counts
            THEN effect_counts[_spec_key_list[i]] ELSE 0])

InitCalls ==
    /\ \/ /\ call \in {[fn |-> "load_effects_config", effects |-> c] :
                            c \in ConfigChoices}
          /\ all_relics = <<>>
          /\ effect_specs = <<>>
          /\ stacking_data = <<>>
       \/ /\ call \in {[fn |-> "__init__", relics |-> NamedRelics, effect_specs |-> e] :
                            e \in NamedSpecChoices}
          /\ all_relics = <<>>
          /\ effect_specs = <<>>
          /\ stacking_data = <<>>
       \/ /\ call \in {[fn |-> "sub_rank", high |-> p[1], low |-> p[2],
                             high_size |-> g, low_size |-> h] :
                            p \in PriorityPairs, g \in 1..MaxHighGroup, h \in 1..MaxGroup}
          /\ all_relics = <<>>
          /\ effect_specs = <<>>
          /\ stacking_data = <<>>
       \/ /\ call \in {[fn |-> "score_relic", relic |-> r] : r \in ScoredRelics}
          /\ all_relics = <<>>
          /\ effect_specs \in SpecChoices
          /\ stacking_data = <<>>
       \/ /\ call \in {[fn |-> "stacking_score", effect_counts |-> d] :
                            d \in CountDicts}
          /\ all_relics = <<>>
          /\ effect_specs = ScoreSpecs
          /\ stacking_data \in StackingKinds
    /\ effect_lookup = BuildLookup(include_specs(effect_specs))
    /\ exclude_lookup = BuildLookup(exclude_specs(effect_specs))
    /\ _spec_sub_rank_values =
          SubRankValues(include_specs(effect_specs),
                        SortedKeys(DOMAIN BuildLookup(include_specs(effect_specs))))
    /\ _excl_sub_rank_values =
          SubRankValues(exclude_specs(effect_specs),
                        SortedKeys(DOMAIN BuildLookup(exclude_specs(effect_specs))))
    /\ _phase_cache = <<>>
    /\ args = Args("call", FALSE, NoneTypes, NoneTypes, NoneTypes, None, 0, 0)
    /\ vessel_configs = <<>>
    /\ vi = 1
    /\ pc = "called"
    /\ frame = NoFrame
    /\ results = <<>>
    /\ all_output = <<>>
    /\ output_data = <<>>
    /\ ret = NoCall
    /\ _spec_keys_cache = <<>>
    /\ _exclude_keys_cache = <<>>
    /\ _score_cache = <<>>

NotCalled == <<all_relics, effect_specs, stacking_data, effect_lookup, exclude_lookup,
               _spec_sub_rank_values, _excl_sub_rank_values, _phase_cache, args,
               vessel_configs, vi, frame, results, all_output, output_data, call,
               _spec_keys_cache, _exclude_keys_cache, _score_cache>>

LoadEffectsConfig ==
    /\ pc = "called" /\ call.fn = "load_effects_config"
    /\ ret' = load_effects_config(call.effects)
    /\ pc' = IF ret'.raised THEN "aborted" ELSE "answered"
    /\ UNCHANGED NotCalled

(* the same counts given to the scorer of score_combination and to the     *)
(* scorer of the compact format                                            *)
StackingScores ==
    /\ pc = "called" /\ call.fn = "stacking_score"
    /\ ret' = [aware |-> _stacking_aware_score(call.effect_counts),
               fast |-> _fast_stacking_score(CountVector(call.effect_counts))]
    /\ pc' = "answered"
    /\ UNCHANGED NotCalled

(* RelicOptimizer(relics, effect_specs): the two lookup tables it builds *)
Construct ==
    /\ pc = "called" /\ call.fn = "__init__"
    /\ ret' = [effect_lookup |->
                  BuildNamedLookup(include_specs(call.effect_specs), call.relics, <<>>),
               exclude_lookup |->
                  BuildNamedLookup(exclude_specs(call.effect_specs), call.relics, <<>>)]
    /\ pc' = "answered"
    /\ UNCHANGED NotCalled

(* the sub-rank values __init__ gives to an entry of rank high_rank in the  *)
(* higher group and to an entry of rank low_rank in the lower group        *)
SubRanks ==
    /\ pc = "called" /\ call.fn = "sub_rank"
    /\ \E high_rank \in 0..(call.high_size - 1), low_rank \in 0..(call.low_size - 1) :
          ret' = [high_rank |-> high_rank, low_rank |-> low_rank,
                  high |-> SubRankOf(call.high_size, high_rank, call.high),
                  low |-> SubRankOf(call.low_size, low_rank, call.low)]
    /\ pc' = "answered"
    /\ UNCHANGED NotCalled

ScoreRelic ==
    /\ pc = "called" /\ call.fn = "score_relic"
    /\ ret' = [score |-> MemoScore(call.relic, CachesNow).value]
    /\ SetCaches(MemoScore(call.relic, CachesNow).caches)
    /\ pc' = "answered"
    /\ UNCHANGED <<all_relics, effect_specs, stacking_data, effect_lookup,
                   exclude_lookup, _spec_sub_rank_values, _excl_sub_rank_values,
                   _phase_cache, args, vessel_configs, vi, frame, results,
                   all_output, output_data, call>>

NextCalls ==
    \/ LoadEffectsConfig
    \/ StackingScores
    \/ Construct
    \/ SubRanks
    \/ ScoreRelic

SpecCalls == InitCalls /\ [][NextCalls]_vars

-----------------------------------------------------------------------------
(* Direct calls of _enumerate_combos: every pattern of three slot colors,  *)
(* the candidate lists built for it from the inventory.                    *)
SlotPatterns == [1..3 -> {"Any", "Blue", "Red", "Yellow"}]

(* compact_n / compact_d: [[self._compact_relic(r) for r in sc] for sc in ...] *)
CompactLists(slot_cands) ==
    List([s \in 1..Len(slot_cands) |->
        List([i \in 1..Len(slot_cands[s]) |-> _compact_relic(slot_cands[s][i])])])

(* the compact candidate lists of a pattern *)
PatternCands(slot_colors, types, candidates_per_slot) ==
    CompactLists(_build_slot_candidates(slot_colors, filter_relics(types, None),
                                        candidates_per_slot))

InitEnum ==
    /\ call \in {[fn |-> "_enumerate_combos", slot_colors |-> p, types |-> NoneTypes,
                    candidates_per_slot |-> c] :
                        p \in SlotPatterns, c \in (MaxCands - 1)..MaxCands}
    /\ all_relics \in Inventories
    /\ effect_specs \in SpecChoices
    /\ stacking_data \in StackingChoices
    /\ effect_lookup = BuildLookup(include_specs(effect_specs))
    /\ exclude_lookup = BuildLookup(exclude_specs(effect_specs))
    /\ _spec_sub_rank_values =
          SubRankValues(include_specs(effect_specs),
                        SortedKeys(DOMAIN BuildLookup(include_specs(effect_specs))))
    /\ _excl_sub_rank_values =
          SubRankValues(exclude_specs(effect_specs),
                        SortedKeys(DOMAIN BuildLookup(exclude_specs(effect_specs))))
    /\ _phase_cache = <<>>
    /\ args = Args("call", FALSE, NoneTypes, NoneTypes, NoneTypes, None, 0, 0)
    /\ vessel_configs = <<>>
    /\ vi = 1
    /\ pc = "called"
    /\ frame = NoFrame
    /\ results = <<>>
    /\ all_output = <<>>
    /\ output_data = <<>>
    /\ ret = NoCall
    /\ _spec_keys_cache = <<>>
    /\ _exclude_keys_cache = <<>>
    /\ _score_cache = <<>>

(* _enumerate_combos on the candidate lists of the pattern, next to the    *)
(* enumeration of the sorted pattern (the one stored under the phase-cache *)
(* key) and to _enum_general on the same lists                             *)
EnumerateCombos ==
    /\ pc = "called" /\ call.fn = "_enumerate_combos"
    /\ LET cands == PatternCands(call.slot_colors, call.types, call.candidates_per_slot)
           sorted_colors == SortedColors(call.slot_colors)
       IN  ret' = [cands |-> cands,
                   combos |-> _enumerate_combos(cands, call.slot_colors),
                   of_sorted |-> _enumerate_combos(
                                    PatternCands(sorted_colors, call.types,
                                                 call.candidates_per_slot),
                                    sorted_colors),
                   general |-> _enum_general(cands)]
    /\ pc' = "answered"
    /\ UNCHANGED NotCalled

NextEnum == EnumerateCombos

SpecEnum == InitEnum /\ [][NextEnum]_vars

(* C16: load_effects_config never aborts on an entry whose priority is not *)
(* required / preferred / nice_to_have (a missing priority included): the  *)
(* entry gets nice_to_have and a diagnostic, the number and order of the   *)
(* entries and their other fields are unchanged, and entries with a valid  *)
(* priority are returned unchanged.                                        *)
C16_UnknownPriorityDefaults ==
    call.fn = "load_effects_config" =>
        /\ pc # "aborted"
        /\ pc = "answered" =>
              /\ Len(ret.effects) = Len(call.effects)
              /\ \A i \in 1..Len(call.effects) :
                    IF /\ call.effects[i].priority.type = "string"
                       /\ call.effects[i].priority.value
                              \in {"required", "preferred", "nice_to_have"}
                    THEN /\ ret.effects[i] = call.effects[i]
                         /\ i \notin Range(ret.warnings)
                    ELSE /\ ret.effects[i] =
                              [call.effects[i] EXCEPT
                                  !.priority = JsonString("nice_to_have")]
                         /\ i \in Range(ret.warnings)

(* C19: for every count dictionary _stacking_aware_score gives what        *)
(* _fast_stacking_score gives on the same counts: a duplicated CONDITIONAL *)
(* key costs floor(0.3 w)(c - 1), a duplicated NON_STACKABLE key           *)
(* floor(0.5 w)(c - 1), for each weight in {1, 10, 100} and count c >= 1.  *)
C19_ScorersAgree ==
    (pc = "answered" /\ call.fn = "stacking_score") => ret.aware = ret.fast

-----------------------------------------------------------------------------
(* The pairing loop of Phase 3 *)

PairKey(n, d) ==
    LET pr == PairRecord(frame.normal_top[n], frame.deep_top[d])
    IN  <<BoolInt(pr.req_met), pr.score, pr.sub_score>>

(* (required_met, score, sub_score) of a heap key *)
HeldKey(h) == <<0 - h[1], 0 - h[2], 0 - h[3]>>

(* the pair ranks strictly above the worst entry held in the heap *)
AboveWorstHeld(n, d) ==
    \E h \in 1..Len(frame.heap) : LexLT(HeldKey(frame.heap[h]), PairKey(n, d))

(* the outer loop is at its bound check and breaks *)
OuterBreaks ==
    /\ pc = "outer" /\ frame.ni <= Len(frame.normal_top)
    /\ Len(frame.heap) >= args.top /\ frame.heap # <<>>
    /\ Prunes(frame.normal_top[frame.ni].score + best_deep_score)

(* the inner loop is at its bound check and breaks *)
InnerBreaks ==
    /\ pc = "inner" /\ frame.di <= Len(frame.deep_top)
    /\ Len(frame.heap) >= args.top
    /\ Prunes(frame.normal_top[frame.ni].score + frame.deep_top[frame.di].score)

(* C17: when the outer or the inner loop breaks on its bound check, no     *)
(* cross pair the break skips ranks strictly above the worst entry held in *)
(* the heap under (required_met, score, sub_score).                        *)
C17_PruningAdmissible ==
    /\ OuterBreaks =>
          \A n \in frame.ni..Len(frame.normal_top), d \in 1..Len(frame.deep_top) :
              ~AboveWorstHeld(n, d)
    /\ InnerBreaks =>
          \A d \in frame.di..Len(frame.deep_top) : ~AboveWorstHeld(frame.ni, d)

(* C18: with triples on both sides and top_n >= 1, the first entry         *)
(* returned by optimize_combined has the maximum (required_met, score)     *)
(* over all cross pairs of normal_top x deep_top.                          *)
C18_FirstEntryIsMaximal ==
    (Paired /\ args.top >= 1) =>
        /\ results # <<>>
        /\ \A n \in 1..Len(frame.normal_top), d \in 1..Len(frame.deep_top) :
              ~LexLT(<<BoolInt(results[1].required_met), results[1].score>>,
                     <<PairKey(n, d)[1], PairKey(n, d)[2]>>)

(* C18 witness: a pairing that returned after a break left pairs           *)
(* unevaluated and after a heap replacement, its first entry ranking       *)
(* strictly above the first pair evaluated.                                *)
C18_Witness ==
    /\ Paired /\ args.top >= 1
    /\ frame.counter < Len(frame.normal_top) * Len(frame.deep_top)
    /\ \E c \in DOMAIN frame.result_map : c >= args.top
    /\ LexLT(PairKey(1, 1), RankKey(results[1]))

(* C20: the merged score of every cross pair is at most the sum of the two *)
(* triple scores, hence at most the ordinary triple's score plus           *)
(* best_deep_score. normal_top, deep_top and best_deep_score are set       *)
(* before the pairing loop and never assigned in it, so the bound is       *)
(* stated at the head of each outer iteration.                             *)
C20_BoundsAreUpperBounds ==
    pc = "outer" =>
        \A n \in 1..Len(frame.normal_top), d \in 1..Len(frame.deep_top) :
            /\ PairKey(n, d)[2] <= frame.normal_top[n].score + frame.deep_top[d].score
            /\ frame.deep_top[d].score <= best_deep_score

(* C20 witness: the pairing loop evaluates a pair whose two triples share  *)
(* a conditional key and a non-stackable key and carry a stackable one, so *)
(* that the merged score is strictly below the sum of the triple scores.   *)
C20_Witness ==
    /\ pc = "inner" /\ frame.di >= 1 /\ frame.di <= Len(frame.deep_top)
    /\ LET n == frame.normal_top[frame.ni]
           d == frame.deep_top[frame.di]
       IN  /\ \E i \in 1..Len(_spec_key_list) :
                 _spec_stacking_int[i] = 2 /\ n.counts[i] > 0 /\ d.counts[i] > 0
           /\ \E i \in 1..Len(_spec_key_list) :
                 _spec_stacking_int[i] = 0 /\ n.counts[i] > 0 /\ d.counts[i] > 0
           /\ \E i \in 1..Len(_spec_key_list) :
                 _spec_stacking_int[i] = 1 /\ n.counts[i] + d.counts[i] > 0
           /\ PairKey(frame.ni, frame.di)[2] < n.score + d.score

-----------------------------------------------------------------------------
(* The relics a saturated slot leaves out *)

(* slot s of the built lists: the pool of its color is larger than the cap *)
Saturated(filtered, c, cps) == Cardinality(PoolIds(filtered, c)) > cps

(* no relic of the pool left out of the list scores above a relic kept     *)
DroppedBelowKept(cands, filtered, slot_colors, cps) ==
    \A s \in 1..Len(slot_colors) :
        Saturated(filtered, slot_colors[s], cps) =>
            \A out \in PoolIds(filtered, slot_colors[s]) \ IdSet(cands[s]) :
                \A kept \in IdSet(cands[s]) :
                    score_relic(_relic_by_id(out)) <= score_relic(_relic_by_id(kept))

(* C21: in _build_slot_candidates, when the color-matching pool of a slot  *)
(* has more than candidates_per_slot relics, every relic of the pool left  *)
(* out of the slot's list scores at most as much as every relic kept.      *)
C21_DroppedScoreBelowKept ==
    CombinedCalled =>
        /\ DroppedBelowKept(NormalCands, NormalFiltered,
                            vessel_configs[vi].normalSlots, args.candidates)
        /\ DroppedBelowKept(DeepCands, DeepFiltered,
                            vessel_configs[vi].deepSlots, args.candidates)

-----------------------------------------------------------------------------
(* Which entry a key of a table comes from *)

(* the keys an entry of the wish list resolves to: its own key and the     *)
(* keys of the effects its names match                                     *)
ResolvedKeys(e, relics) ==
    (IF e.key # None THEN {e.key} ELSE {})
    \cup {eff.key : eff \in {x \in Range(NamedEffects(relics)) :
            \/ Given(e.name_ja) /\ IsSubstring(e.name_ja, x.name_ja)
            \/ Given(e.name_en) /\ IsSubstring(Lower(e.name_en), Lower(x.name_en))}}

(* every key of the table has the priority and weight of the first entry   *)
(* of specs that resolves to it                                            *)
FirstBindingWins(table, specs, relics) ==
    \A k \in DOMAIN table :
        LET first == CHOOSE i \in 1..Len(specs) :
                        /\ k \in ResolvedKeys(specs[i], relics)
                        /\ \A j \in 1..(i - 1) : k \notin ResolvedKeys(specs[j], relics)
        IN  /\ table[k].priority = specs[first].priority
            /\ table[k].weight = PRIORITY_WEIGHTS[specs[first].priority]

(* C22: when two include entries (or two exclude entries) resolve to the   *)
(* same effect key, the table keeps the priority and weight of the earlier *)
(* entry, whether the later entry names the key or reaches it by a name    *)
(* match.                                                                  *)
C22_FirstBindingWins ==
    (call.fn = "__init__" /\ pc = "answered") =>
        /\ FirstBindingWins(ret.effect_lookup, include_specs(call.effect_specs),
                            call.relics)
        /\ FirstBindingWins(ret.exclude_lookup, exclude_specs(call.effect_specs),
                            call.relics)

(* C23: with ranks 0 <= r < G in every priority group, the sub_rank of     *)
(* every REQUIRED include key is strictly greater than that of every       *)
(* PREFERRED key, and that of every PREFERRED key strictly greater than    *)
(* that of every NICE_TO_HAVE key, whatever the group sizes.               *)
C23_TierDominates ==
    (call.fn = "sub_rank" /\ pc = "answered") => ret.high > ret.low

-----------------------------------------------------------------------------
(* Enumerated triples as sets *)

Enumerated == call.fn = "_enumerate_combos" /\ pc = "answered"

(* the (set of relic ids, score) pairs of a list of triples *)
TripleScores(combos) ==
    {<<Range(combos[i].rids), combos[i].score>> : i \in 1..Len(combos)}

(* C24: for two slot patterns that are permutations of each other (Any     *)
(* slots included), the same pool and the same candidates_per_slot,        *)
(* _enumerate_combos yields the same set of (set of three relic ids,       *)
(* score) pairs: the list stored under the sorted-pattern key has the      *)
(* triples a fresh enumeration of the current pattern gives.               *)
C24_PermutedPatternsSameTriples ==
    Enumerated => TripleScores(ret.combos) = TripleScores(ret.of_sorted)

(* C24 witness: a pattern with an Any slot that is not in sorted order,    *)
(* enumerated to triples of different scores.                              *)
C24_Witness ==
    /\ Enumerated
    /\ "Any" \in Range(call.slot_colors)
    /\ call.slot_colors # SortedColors(call.slot_colors)
    /\ Cardinality(Range(call.slot_colors)) = 3
    /\ \E i, j \in 1..Len(ret.combos) : ret.combos[i].score # ret.combos[j].score
    /\ ret.combos # ret.of_sorted

-----------------------------------------------------------------------------
(* Successive calls of optimize_combined on one optimizer: the caller may  *)
(* change candidates_per_slot, normal_types, deep_types and the vessel     *)
(* from one call to the next; _phase_cache lives as long as the optimizer. *)

MaxCalls == 2

CombinedArgs == {a \in ArgChoices : a.mode = "combined" /\ a.top >= 1}

InitSeq ==
    /\ all_relics \in Inventories
    /\ effect_specs \in SpecChoices
    /\ stacking_data \in StackingChoices
    /\ effect_lookup = BuildLookup(include_specs(effect_specs))
    /\ exclude_lookup = BuildLookup(exclude_specs(effect_specs))
    /\ _spec_sub_rank_values =
          SubRankValues(include_specs(effect_specs),
                        SortedKeys(DOMAIN BuildLookup(include_specs(effect_specs))))
    /\ _excl_sub_rank_values =
          SubRankValues(exclude_specs(effect_specs),
                        SortedKeys(DOMAIN BuildLookup(exclude_specs(effect_specs))))
    /\ _phase_cache = <<>>
    /\ args \in CombinedArgs
    /\ vessel_configs \in VesselLists
    /\ vi = 1
    /\ pc = "idle"
    /\ frame = NoFrame
    /\ results = <<>>
    /\ all_output = <<>>
    /\ output_data = <<>>
    /\ call = [fn |-> "optimize_combined", n |-> 1]
    /\ ret = NoCall
    /\ _spec_keys_cache = <<>>
    /\ _exclude_keys_cache = <<>>
    /\ _score_cache = <<>>

(* the caller takes the returned list and calls optimize_combined again,   *)
(* with the arguments of its choice                                        *)
CallAgain ==
    /\ pc = "returned" /\ call.n < MaxCalls
    /\ args' \in CombinedArgs
    /\ vi' \in 1..Len(vessel_configs)
    /\ call' = [call EXCEPT !.n = @ + 1]
    /\ pc' = "idle"
    /\ UNCHANGED <<all_relics, effect_specs, stacking_data, effect_lookup,
                   exclude_lookup, _spec_sub_rank_values, _excl_sub_rank_values,
                   _phase_cache, vessel_configs, frame, results, all_output,
                   output_data, ret, _spec_keys_cache, _exclude_keys_cache,
                   _score_cache>>

NextSeq ==
    \/ CombinedBegin
    \/ OuterStep
    \/ InnerStep
    \/ BuildResults
    \/ CallAgain

SpecSeq == InitSeq /\ [][NextSeq]_vars

(* every relic of every triple is in one of the slot lists cands *)
TriplesWithin(top, cands) ==
    \A t \in 1..Len(top) :
        Range(top[t].rids) \subseteq UNION {IdSet(cands[s]) : s \in 1..Len(cands)}

(* C25: after any sequence of optimize_combined calls on one optimizer,    *)
(* calls that differ in candidates_per_slot, normal_types or deep_types    *)
(* included, every triple paired in Phase 3 of a call consists only of     *)
(* relics of the slot candidate lists built by that call.                  *)
C25_PairedTriplesFromOwnCandidates ==
    (CombinedCalled /\ frame.ni = 1) =>
        /\ TriplesWithin(frame.normal_top, NormalCands)
        /\ TriplesWithin(frame.deep_top, DeepCands)

-----------------------------------------------------------------------------
(* The specialized enumerators: how many triples, and which *)

(* the pattern has three slots, none of them Any, and this many colors *)
ColorCount(slot_colors) ==
    IF Len(slot_colors) = 3 /\ "Any" \notin Range(slot_colors)
    THEN Cardinality(Range(slot_colors)) ELSE 0

(* C(n, 2) and C(n, 3) *)
Choose2(n) == (n * (n - 1)) \div 2

Choose3(n) == (n * (n - 1) * (n - 2)) \div 6

(* the candidate list of the color that two slots share, and of the other *)
PairList(cands, slot_colors) ==
    cands[CHOOSE s \in 1..3 : \E t \in (1..3) \ {s} : slot_colors[t] = slot_colors[s]]

SingleList(cands, slot_colors) ==
    cands[CHOOSE s \in 1..3 : \A t \in (1..3) \ {s} : slot_colors[t] # slot_colors[s]]

(* C26: for a three-slot pattern without Any and candidate lists built per *)
(* color from relics with unique ids, three equal colors with n candidates *)
(* yield C(n,3) triples, three distinct colors |S0|*|S1|*|S2| triples, and *)
(* two slots of one color (n candidates) plus one of another (m            *)
(* candidates) C(n,2)*m triples.                                           *)
C26_TripleCounts ==
    Enumerated =>
        /\ ColorCount(call.slot_colors) = 1 =>
              Len(ret.combos) = Choose3(Len(ret.cands[1]))
        /\ ColorCount(call.slot_colors) = 3 =>
              Len(ret.combos) = Len(ret.cands[1]) * Len(ret.cands[2]) * Len(ret.cands[3])
        /\ ColorCount(call.slot_colors) = 2 =>
              Len(ret.combos) = Choose2(Len(PairList(ret.cands, call.slot_colors)))
                                  * Len(SingleList(ret.cands, call.slot_colors))

(* C26 witness: a pattern of two equal colors and one other, the shared    *)
(* list at the cap with at least three candidates and the other list with  *)
(* two, enumerated to C(n,2)*2 triples.                                    *)
C26_Witness ==
    /\ Enumerated
    /\ ColorCount(call.slot_colors) = 2
    /\ Len(PairList(ret.cands, call.slot_colors)) = call.candidates_per_slot
    /\ Len(SingleList(ret.cands, call.slot_colors)) = 2
    /\ Len(ret.combos) >= 6

(* what a stored triple says, apart from the order of its relic ids *)
TripleFacts(c) ==
    [ids |-> Range(c.rids), score |-> c.score, counts |-> c.counts, conc |-> c.conc,
     excl_pen |-> c.excl_pen, has_excl_req |-> c.has_excl_req]

FactsOf(combos) == {TripleFacts(combos[i]) : i \in 1..Len(combos)}

(* every set of relic ids occurs once in the list *)
EachOnce(combos) ==
    \A i, j \in 1..Len(combos) : Range(combos[i].rids) = Range(combos[j].rids) => i = j

(* C27: for every three-slot pattern without Any, the specialized          *)
(* enumerator chosen by _enumerate_combos produces the same relic-id sets, *)
(* each once and with the same score, count vector, concentration sum,     *)
(* exclude sum and required-exclude flag, as _enum_general on the same     *)
(* candidate lists.                                                        *)
C27_SpecializedMatchesGeneral ==
    (Enumerated /\ ColorCount(call.slot_colors) > 0) =>
        /\ FactsOf(ret.combos) = FactsOf(ret.general)
        /\ EachOnce(ret.combos)
        /\ EachOnce(ret.general)

(* C27 witness: a pattern (c, d, d) of two colors, where the specialized   *)
(* enumerator lists the ids in another order than the general one, with    *)
(* triples of different scores, one of them under a required exclude.      *)
C27_Witness ==
    /\ Enumerated
    /\ ColorCount(call.slot_colors) = 2
    /\ call.slot_colors[2] = call.slot_colors[3]
    /\ ret.combos # ret.general
    /\ \E i, j \in 1..Len(ret.combos) : ret.combos[i].score # ret.combos[j].score
    /\ \E i \in 1..Len(ret.combos) : ret.combos[i].has_excl_req

-----------------------------------------------------------------------------
(* The score of one relic, read from the wish list *)

(* the weight of the entries of the wish list (include or exclude) that    *)
(* name key k                                                              *)
ListedWeight(k, exclude) ==
    LET hits == {i \in 1..Len(effect_specs) :
                    effect_specs[i].key = k /\ effect_specs[i].exclude = exclude}
    IN  IF hits = {} THEN 0
        ELSE PRIORITY_WEIGHTS[effect_specs[CHOOSE i \in hits : TRUE].priority]

(* the relic's effects, primary and sub-effects, one by one *)
IncludeHits(relic) == SelectSeq(EffectKeys(relic), LAMBDA k : k \in IncludeKeys)

ExcludeHits(relic) == SelectSeq(EffectKeys(relic), LAMBDA k : k \in ExcludeKeys)

(* C28: score_relic(r) is the sum of the include weights over the relic's  *)
(* include hits (primary and sub-effects, with multiplicity; k hits), plus *)
(* 5*k*(k-1)/2, minus the sum of the exclude weights over its exclude      *)
(* hits.                                                                   *)
C28_RelicScoreFormula ==
    (call.fn = "score_relic" /\ pc = "answered") =>
        LET inc == IncludeHits(call.relic)
            exc == ExcludeHits(call.relic)
            k   == Len(inc)
        IN  ret.score =
                SumSeq([i \in 1..k |-> ListedWeight(inc[i], FALSE)])
                + (5 * k * (k - 1)) \div 2
                - SumSeq([i \in 1..Len(exc) |-> ListedWeight(exc[i], TRUE)])

(* C28 witness: a relic with three include hits, one key hit twice (once   *)
(* as a sub-effect), and an exclude hit; and the relic of the example,     *)
(* one PREFERRED include key and one PREFERRED exclude key, scoring 0.     *)
C28_Witness ==
    /\ call.fn = "score_relic" /\ pc = "answered"
    /\ \/ /\ Len(IncludeHits(call.relic)) = 3
          /\ Cardinality(Range(IncludeHits(call.relic))) = 2
          /\ Len(ExcludeHits(call.relic)) = 1
          /\ Len(call.relic.effects) = 2
       \/ /\ Len(IncludeHits(call.relic)) = 1
          /\ Len(ExcludeHits(call.relic)) = 1
          /\ ListedWeight(IncludeHits(call.relic)[1], FALSE) = 10
          /\ ListedWeight(ExcludeHits(call.relic)[1], TRUE) = 10
          /\ ret.score = 0

-----------------------------------------------------------------------------
(* One optimizer used by a caller that mixes direct calls of the cached    *)
(* readers, of _build_slot_candidates and of the optimize_* operations.    *)
(* The per-relic caches and _phase_cache live as long as the optimizer; a  *)
(* frame is gone when its call returns.                                    *)

MaxCacheCalls == 2

(* the arguments of the optimize_* calls of this caller *)
CacheArgs == {a \in ArgChoices : a.top = 1 /\ a.candidates = MaxCands}

(* the slot lists and types given to _build_slot_candidates *)
BuildCalls ==
    { [slot_colors |-> VesselB.normalSlots, types |-> {"Relic", "UniqueRelic"},
       candidates_per_slot |-> c] : c \in (MaxCands - 1)..MaxCands }
    \cup
    { [slot_colors |-> VesselC.deepSlots, types |-> {"DeepRelic"},
       candidates_per_slot |-> c] : c \in (MaxCands - 1)..MaxCands }

(* the caller's direct calls of the cached readers go to the first relics *)
(* of the inventory                                                        *)
MaxDirect == 3

(* no operation is running *)
NoArgs == Args("call", FALSE, NoneTypes, NoneTypes, NoneTypes, None, 0, 0)

InitCache ==
    /\ all_relics \in Inventories
    /\ effect_specs \in SpecChoices
    /\ stacking_data = [A |-> "True", C |-> "conditional"]
    /\ effect_lookup = BuildLookup(include_specs(effect_specs))
    /\ exclude_lookup = BuildLookup(exclude_specs(effect_specs))
    /\ _spec_sub_rank_values =
          SubRankValues(include_specs(effect_specs),
                        SortedKeys(DOMAIN BuildLookup(include_specs(effect_specs))))
    /\ _excl_sub_rank_values =
          SubRankValues(exclude_specs(effect_specs),
                        SortedKeys(DOMAIN BuildLookup(exclude_specs(effect_specs))))
    /\ _phase_cache = <<>>
    /\ args = NoArgs
    /\ vessel_configs = <<VesselB, VesselC>>
    /\ vi = 1
    /\ pc = "ready"
    /\ frame = NoFrame
    /\ results = <<>>
    /\ all_output = <<>>
    /\ output_data = <<>>
    /\ call = [fn |-> "none", n |-> 0]
    /\ ret = NoCall
    /\ _spec_keys_cache = <<>>
    /\ _exclude_keys_cache = <<>>
    /\ _score_cache = <<>>

(* what a direct call leaves alone *)
NotCached == <<all_relics, effect_specs, stacking_data, effect_lookup, exclude_lookup,
               _spec_sub_rank_values, _excl_sub_rank_values, _phase_cache, args,
               vessel_configs, vi, frame, results, all_output, output_data, pc>>

(* a direct call returns value and leaves the caches as memo.caches *)
Answer(fn, relic, memo) ==
    /\ call' = [fn |-> fn, n |-> call.n + 1, rid |-> relic.id]
    /\ ret' = [value |-> memo.value]
    /\ SetCaches(memo.caches)
    /\ UNCHANGED NotCached

CallScoreRelic ==
    /\ pc = "ready" /\ call.n < MaxCacheCalls
    /\ \E i \in 1..Min2(MaxDirect, Len(all_relics)) :
          Answer("score_relic", all_relics[i], MemoScore(all_relics[i], CachesNow))

CallGetSpecKeys ==
    /\ pc = "ready" /\ call.n < MaxCacheCalls
    /\ \E i \in 1..Min2(MaxDirect, Len(all_relics)) :
          Answer("_get_spec_keys", all_relics[i],
                 MemoSpecKeys(all_relics[i], CachesNow))

CallGetExcludeKeys ==
    /\ pc = "ready" /\ call.n < MaxCacheCalls
    /\ \E i \in 1..Min2(MaxDirect, Len(all_relics)) :
          Answer("_get_exclude_keys", all_relics[i],
                 MemoExcludeKeys(all_relics[i], CachesNow))

BuildAnswer(b, built) ==
    /\ call' = [fn |-> "_build_slot_candidates", n |-> call.n + 1, build |-> b]
    /\ ret' = [value |-> built.cands]
    /\ SetCaches(built.caches)
    /\ UNCHANGED NotCached

CallBuildSlotCandidates ==
    /\ pc = "ready" /\ call.n < MaxCacheCalls
    /\ \E b \in BuildCalls :
          BuildAnswer(b, BuildWithCaches(b.slot_colors, filter_relics(b.types, None),
                                         b.candidates_per_slot, CachesNow))

(* the number of vessels (or colors) an operation with arguments a may be *)
(* called for                                                              *)
ItemsFor(a) ==
    IF a.mode # "legacy" THEN Len(vessel_configs)
    ELSE IF a.color # None THEN 1 ELSE Len(LegacyColors)

(* the caller starts optimize_combined, optimize_for_vessel or            *)
(* optimize_legacy                                                         *)
CallOptimize ==
    /\ pc = "ready" /\ call.n < MaxCacheCalls
    /\ \E a \in CacheArgs : \E i \in 1..ItemsFor(a) : args' = a /\ vi' = i
    /\ call' = [fn |-> "optimize", n |-> call.n + 1]
    /\ pc' = "idle"
    /\ UNCHANGED <<all_relics, effect_specs, stacking_data, effect_lookup,
                   exclude_lookup, _spec_sub_rank_values, _excl_sub_rank_values,
                   _phase_cache, vessel_configs, frame, results, all_output,
                   output_data, ret, Caches>>

(* the operation returns: its arguments and locals are gone, the caller   *)
(* drops the list                                                          *)
OptimizeReturns ==
    /\ pc = "returned"
    /\ pc' = "ready"
    /\ args' = NoArgs
    /\ vi' = 1
    /\ frame' = NoFrame
    /\ results' = <<>>
    /\ UNCHANGED <<all_relics, effect_specs, stacking_data, effect_lookup,
                   exclude_lookup, _spec_sub_rank_values, _excl_sub_rank_values,
                   _phase_cache, vessel_configs, all_output, output_data,
                   call, ret, Caches>>

NextCache ==
    \/ CallScoreRelic
    \/ CallGetSpecKeys
    \/ CallGetExcludeKeys
    \/ CallBuildSlotCandidates
    \/ CallOptimize
    \/ MainSingle
    \/ MainLegacy
    \/ CombinedBegin
    \/ OuterStep
    \/ InnerStep
    \/ BuildResults
    \/ OptimizeReturns

SpecCache == InitCache /\ [][NextCache]_vars

(* the value a direct call computes for its relic when nothing is cached *)
FromScratch(fn, relic) ==
    IF fn = "score_relic" THEN score_relic(relic)
    ELSE IF fn = "_get_spec_keys" THEN _get_spec_keys(relic)
    ELSE _get_exclude_keys(relic)

StoredValuesFresh ==
    /\ \A rid \in DOMAIN _score_cache :
          _score_cache[rid] = score_relic(_relic_by_id(rid))
    /\ \A rid \in DOMAIN _spec_keys_cache :
          _spec_keys_cache[rid] = _get_spec_keys(_relic_by_id(rid))
    /\ \A rid \in DOMAIN _exclude_keys_cache :
          _exclude_keys_cache[rid] = _get_exclude_keys(_relic_by_id(rid))

ReturnedValueFresh ==
    /\ call.fn \in {"score_relic", "_get_spec_keys", "_get_exclude_keys"}
          => ret.value = FromScratch(call.fn, _relic_by_id(call.rid))
    /\ call.fn = "_build_slot_candidates"
          => ret.value = _build_slot_candidates(
                            call.build.slot_colors,
                            filter_relics(call.build.types, None),
                            call.build.candidates_per_slot)

(* C29: on one optimizer, after any sequence of calls of score_relic,      *)
(* _get_spec_keys, _get_exclude_keys, _build_slot_candidates and the       *)
(* optimize_* operations, every value kept in a per-relic cache, and every *)
(* value a call returns for a relic, is the value computed from scratch    *)
(* for that relic; the lists _build_slot_candidates returns are those it   *)
(* builds on a fresh optimizer.                                            *)
C29_MemoizedEqualsFresh == StoredValuesFresh /\ ReturnedValueFresh

(* _get_spec_keys answered from the cache: the relic was scored earlier    *)
(* (only score_relic fills _score_cache), and the cache holds another      *)
(* relic's different keys under a smaller id                               *)
C29_Witness ==
    /\ pc = "ready"
    /\ call.fn = "_get_spec_keys"
    /\ call.rid \in DOMAIN _score_cache
    /\ ret.value # <<>>
    /\ \E rid \in DOMAIN _spec_keys_cache :
          rid < call.rid /\ _spec_keys_cache[rid] # ret.value

-----------------------------------------------------------------------------
(* The heap and result_map of the pairing loop *)

InPairingLoop == args.mode = "combined" /\ pc \in {"outer", "inner", "build"}

(* the counters (last components) of the keys in the heap *)
HeapCounters == {frame.heap[i][4] : i \in 1..Len(frame.heap)}

(* C30: at every step of the Phase-3 pairing loop the heap holds at most   *)
(* top_n keys, the counters of its keys are pairwise distinct, and the     *)
(* keys of result_map are exactly the counters of the keys in the heap.    *)
C30_HeapAndResultMapAgree ==
    InPairingLoop =>
        /\ Len(frame.heap) <= args.top
        /\ \A i, j \in 1..Len(frame.heap) :
              i # j => frame.heap[i][4] # frame.heap[j][4]
        /\ DOMAIN frame.result_map = HeapCounters

(* a full heap of more than one key after an eviction: a pair evaluated    *)
(* once the heap was full is in it, and an earlier one has left it         *)
C30_Witness ==
    /\ InPairingLoop
    /\ args.top >= 2
    /\ Len(frame.heap) = args.top
    /\ \E c \in HeapCounters : c >= args.top
    /\ \E c \in 0..(args.top - 1) : c \notin DOMAIN frame.result_map

====
